---- MODULE Spec2Model ----
(***************************************************************************)
(* Mobile element locator generation of the WebdriverIO MCP server:        *)
(* xml-parsing, element-filter, locator-generation and                     *)
(* generate-all-locators, modelled as the state machine of one call of     *)
(* generateAllElementLocators on one page source.                          *)
(*                                                                         *)
(* Strings are sequences of characters.  A word without quote, backslash,  *)
(* newline or blank in it ("Submit", "null", a class name) is kept as one  *)
(* element of the sequence; the characters the code looks at are elements  *)
(* of their own.  An absent attribute is the empty string: every place of  *)
(* the code that reads an attribute treats undefined and '' alike.         *)
(***************************************************************************)
EXTENDS Integers, Sequences, FiniteSets, TLC

DQ == "\""
SQ == "'"
NL == "\n"
BS == "\\"
SP == " "

\* the backquote of a class chain predicate
BT == "<backquote>"

NoStr == << >>

RECURSIVE Concat(_)
Concat(ss) == IF ss = << >> THEN << >> ELSE Head(ss) \o Concat(Tail(ss))

Contains(s, c) == \E i \in 1..Len(s) : s[i] = c

\* String.prototype.replace(/c/g, r) for a one-character pattern
ReplaceAll(s, c, r) == Concat([i \in 1..Len(s) |-> IF s[i] = c THEN r ELSE <<s[i]>>])

\* String.prototype.trim() !== ''
TrimNonEmpty(s) == \E i \in 1..Len(s) : s[i] \notin {SP, NL}

Truthy(s) == s # NoStr

(***************************************************************************)
(* The DOM of the page source: a function from paths (sequences of child   *)
(* indices, << >> the document element) to [tag, a], a the attributes the  *)
(* element has.                                                            *)
(***************************************************************************)
AttrNames ==
  {"resource-id", "content-desc", "text", "class", "bounds", "displayed",
   "clickable", "focusable", "checkable", "long-clickable",
   "name", "label", "value", "visible", "enabled", "accessible",
   "x", "y", "width", "height"}

\* getAttribute: the value of an attribute of a DOM element, '' when it has none
getAttribute(node, n) == IF n \in DOMAIN node.a THEN node.a[n] ELSE NoStr

Parent(p) == SubSeq(p, 1, Len(p) - 1)

IsPrefix(p, q) == Len(p) <= Len(q) /\ SubSeq(q, 1, Len(p)) = p

\* the children of p are p.0, p.1, ... without a gap
RECURSIVE ChildCount(_, _, _)
ChildCount(doc, p, i) == IF Append(p, i) \in DOMAIN doc THEN ChildCount(doc, p, i + 1) ELSE i

NumChildren(doc, p) == ChildCount(doc, p, 0)

\* childNodesOf: the element children of a node, in document order

childNodesOf(doc, p) == [i \in 1..NumChildren(doc, p) |-> Append(p, i - 1)]

RECURSIVE Preorder(_, _)
Preorder(doc, p) ==
  <<p>> \o Concat([i \in 1..NumChildren(doc, p) |-> Preorder(doc, Append(p, i - 1))])

\* nothing in a document without a document element
DocOrder(doc) == IF << >> \in DOMAIN doc THEN Preorder(doc, << >>) ELSE << >>

RECURSIVE SelectPaths(_, _)
SelectPaths(ps, keep) ==
  IF ps = << >> THEN << >>
  ELSE IF Head(ps) \in keep THEN <<Head(ps)>> \o SelectPaths(Tail(ps), keep)
       ELSE SelectPaths(Tail(ps), keep)

(***************************************************************************)
(* XPath expressions.  An expression is [steps, index]: a location path of *)
(* steps [axis, tag, conds, pos] and, for (xpath)[n], the index n (0: no   *)
(* index).  A string literal is [q, body] as it is written between two q   *)
(* characters, or [q |-> "concat", parts] for concat(...).  src is the     *)
(* attribute value the literal was built from.                             *)
(***************************************************************************)
NoNode == <<-1>>

DOC == <<-2>>

Lit(q, body, src) == [q |-> q, body |-> body, parts |-> << >>, src |-> src]

\* `"${value}"`: the template literals of buildXPath and getSimpleSuggestedLocators
DQLit(body, src) == Lit(DQ, body, src)

\* the segments escapeXPathValue hands to concat(): split at every single quote
RECURSIVE concatParts(_, _)
concatParts(value, current) ==
  IF value = << >>
    THEN IF current # << >> THEN <<Lit(SQ, current, current)>> ELSE << >>
    ELSE IF Head(value) = SQ
           THEN (IF current # << >> THEN <<Lit(SQ, current, current)>> ELSE << >>)
                \o <<Lit(DQ, <<SQ>>, <<SQ>>)>> \o concatParts(Tail(value), << >>)
           ELSE concatParts(Tail(value), Append(current, Head(value)))

escapeXPathValue(value) ==
  IF ~Contains(value, SQ) THEN Lit(SQ, value, value)
  ELSE IF ~Contains(value, DQ) THEN Lit(DQ, value, value)
  ELSE [q |-> "concat", body |-> << >>, parts |-> concatParts(value, << >>), src |-> value]

Cond(attr, lit) == [attr |-> attr, lit |-> lit]

Step(axis, tag, conds, pos) == [axis |-> axis, tag |-> tag, conds |-> conds, pos |-> pos]

XP(steps) == [steps |-> steps, index |-> 0]

\* `//*[@attr="value"]`
AnyWithAttr(attr, lit) == XP(<<Step("//", "*", <<Cond(attr, lit)>>, 0)>>)

generateIndexedXPath(baseXPath, index) == [baseXPath EXCEPT !.index = index]

\* the lexer of the xpath library ends a literal at the first closing quote:
\* a body holding its own quote character leaves the expression malformed
LitWellFormed(l) ==
  IF l.q = "concat"
    THEN Len(l.parts) >= 2 /\ \A i \in 1..Len(l.parts) : ~Contains(l.parts[i].body, l.parts[i].q)
    ELSE ~Contains(l.body, l.q)

LitValue(l) ==
  IF l.q = "concat" THEN Concat([i \in 1..Len(l.parts) |-> l.parts[i].body]) ELSE l.body

XPLits(xp) ==
  UNION {{xp.steps[i].conds[j].lit : j \in 1..Len(xp.steps[i].conds)} : i \in 1..Len(xp.steps)}

\* a step needs a name test: `//` with nothing after it does not parse
XPWellFormed(xp) ==
  /\ \A i \in 1..Len(xp.steps) : xp.steps[i].tag # ""
  /\ \A l \in XPLits(xp) : LitWellFormed(l)

ParentOf(p) == IF p = << >> THEN DOC ELSE Parent(p)

ChildrenOf(doc, c) ==
  IF c = DOC THEN {<< >>} \cap DOMAIN doc ELSE {Append(c, i) : i \in 0..(NumChildren(doc, c) - 1)}

\* the children of the nodes of descendant-or-self::node()
Descendants(doc, c) ==
  IF c = DOC THEN DOMAIN doc ELSE {q \in DOMAIN doc : q # c /\ IsPrefix(c, q)}

TagTest(doc, p, tag) == tag = "*" \/ doc[p].tag = tag

\* position of p among the children of its parent that pass the node test
PositionOf(doc, p, tag) ==
  IF p = << >> THEN 1
  ELSE Cardinality({i \in 0..p[Len(p)] : TagTest(doc, Append(Parent(p), i), tag)})

StepMatches(doc, p, st) ==
  /\ TagTest(doc, p, st.tag)
  /\ \A j \in 1..Len(st.conds) :
       /\ getAttribute(doc[p], st.conds[j].attr) # NoStr
       /\ getAttribute(doc[p], st.conds[j].attr) = LitValue(st.conds[j].lit)
  /\ st.pos # 0 => PositionOf(doc, p, st.tag) = st.pos

ApplyStep(doc, ctxNodes, st) ==
  LET cand == IF st.axis = "//" THEN UNION {Descendants(doc, c) : c \in ctxNodes}
              ELSE UNION {ChildrenOf(doc, c) : c \in ctxNodes}
  IN  {p \in cand : StepMatches(doc, p, st)}

RECURSIVE ApplySteps(_, _, _)
ApplySteps(doc, ctxNodes, steps) ==
  IF steps = << >> THEN ctxNodes
  ELSE ApplySteps(doc, ApplyStep(doc, ctxNodes, Head(steps)), Tail(steps))

\* xpath.select: the matched nodes in document order, or a thrown parse error
xpathSelect(doc, xp) ==
  IF ~XPWellFormed(xp) THEN [threw |-> TRUE, nodes |-> << >>]
  ELSE LET ord == SelectPaths(DocOrder(doc), ApplySteps(doc, {DOC}, xp.steps))
       IN  [threw |-> FALSE,
            nodes |-> IF xp.index = 0 THEN ord
                      ELSE IF xp.index <= Len(ord) THEN <<ord[xp.index]>> ELSE << >>]

evaluateXPath(doc, xp) ==
  LET r == xpathSelect(doc, xp) IN IF r.threw THEN << >> ELSE r.nodes

isSameElement(doc, n1, n2) ==
  IF doc[n1].tag # doc[n2].tag THEN FALSE
  ELSE IF Truthy(getAttribute(doc[n1], "bounds")) /\ Truthy(getAttribute(doc[n2], "bounds"))
    THEN getAttribute(doc[n1], "bounds") = getAttribute(doc[n2], "bounds")
  ELSE IF /\ Truthy(getAttribute(doc[n1], "x")) /\ Truthy(getAttribute(doc[n1], "y"))
          /\ Truthy(getAttribute(doc[n2], "x")) /\ Truthy(getAttribute(doc[n2], "y"))
    THEN /\ getAttribute(doc[n1], "x") = getAttribute(doc[n2], "x")
         /\ getAttribute(doc[n1], "y") = getAttribute(doc[n2], "y")
         /\ getAttribute(doc[n1], "width") = getAttribute(doc[n2], "width")
         /\ getAttribute(doc[n1], "height") = getAttribute(doc[n2], "height")
  ELSE FALSE

\* index 0 stands for an absent index
UniquenessResult(isUnique, index, total) ==
  [isUnique |-> isUnique, index |-> index, totalMatches |-> total]

RECURSIVE firstSame(_, _, _, _)
firstSame(doc, nodes, i, targetNode) ==
  IF i > Len(nodes) THEN 0
  ELSE IF nodes[i] = targetNode \/ isSameElement(doc, nodes[i], targetNode) THEN i
  ELSE firstSame(doc, nodes, i + 1, targetNode)

\* checkXPathUniqueness taking any match for a unique one
checkXPathUniquenessAnyMatch(doc, xp, targetNode) ==
  LET totalMatches == Len(evaluateXPath(doc, xp))
  IN  UniquenessResult(totalMatches >= 1, 0, totalMatches)

\* checkXPathUniqueness taking an expression that selects nothing for unique
checkXPathUniquenessNoMatch(doc, xp, targetNode) ==
  LET nodes == evaluateXPath(doc, xp)
      totalMatches == Len(nodes)
  IN  IF totalMatches <= 1 THEN UniquenessResult(TRUE, 0, totalMatches)
      ELSE IF targetNode # NoNode
        THEN UniquenessResult(FALSE, firstSame(doc, nodes, 1, targetNode), totalMatches)
      ELSE UniquenessResult(FALSE, 0, totalMatches)

checkXPathUniqueness(doc, xp, targetNode) ==
  LET nodes == evaluateXPath(doc, xp)
      totalMatches == Len(nodes)
  IN  IF totalMatches = 0 THEN UniquenessResult(FALSE, 0, 0)
      ELSE IF totalMatches = 1 THEN UniquenessResult(TRUE, 0, 1)
      ELSE IF targetNode # NoNode
        THEN UniquenessResult(FALSE, firstSame(doc, nodes, 1, targetNode), totalMatches)
      ELSE UniquenessResult(FALSE, 0, totalMatches)

RECURSIVE walkPath(_, _, _)
walkPath(doc, current, indices) ==
  IF indices = << >> THEN current
  ELSE IF current = NoNode THEN NoNode
  ELSE LET children == childNodesOf(doc, current)
       IN  walkPath(doc,
                    IF Head(indices) + 1 \in 1..Len(children)
                      THEN children[Head(indices) + 1] ELSE NoNode,
                    Tail(indices))

\* doc.documentElement, null in a document without an element
documentElement(doc) == IF << >> \in DOMAIN doc THEN << >> ELSE NoNode

findDOMNodeByPath(doc, path) == walkPath(doc, documentElement(doc), path)

(***************************************************************************)
(* Bounds.  A number of a string is written as one element of the          *)
(* sequence, its digits ("10"), a minus sign before it as an element of    *)
(* its own.  A JavaScript number is [nan, n]: nan for NaN, else the        *)
(* integer n.                                                              *)
(***************************************************************************)
Num(n) == [nan |-> FALSE, n |-> n]

NaN == [nan |-> TRUE, n |-> 0]

\* the strings of digits that occur as coordinates
Digits == {ToString(n) : n \in 0..99}

\* parseInt(digits, 10) of a string of digits
DigitsValue(d) == CHOOSE n \in 0..99 : ToString(n) = d

\* parseInt(s, 10): the leading blanks, a sign and the digits after it are
\* read and what follows is ignored; NaN without digits
RECURSIVE parseInt(_)
parseInt(s) ==
  IF s = << >> THEN NaN
  ELSE IF Head(s) \in {SP, NL} THEN parseInt(Tail(s))
  ELSE IF Head(s) \in Digits THEN Num(DigitsValue(Head(s)))
  ELSE IF Head(s) \in {"-", "+"} /\ Len(s) >= 2 /\ s[2] \in Digits
    THEN Num(IF Head(s) = "-" THEN 0 - DigitsValue(s[2]) ELSE DigitsValue(s[2]))
  ELSE NaN

Minus(a, b) == IF a.nan \/ b.nan THEN NaN ELSE Num(a.n - b.n)

Plus(a, b) == IF a.nan \/ b.nan THEN NaN ELSE Num(a.n + b.n)

\* a >= b, a > b and a <= b of JavaScript numbers: false with a NaN
Geq(a, b) == ~a.nan /\ ~b.nan /\ a.n >= b.n

Gt(a, b) == ~a.nan /\ ~b.nan /\ a.n > b.n

Leq(a, b) == ~a.nan /\ ~b.nan /\ a.n <= b.n

Bounds(x, y, width, height) == [x |-> x, y |-> y, width |-> width, height |-> height]

\* the places where /\[(\d+),(\d+)\]\[(\d+),(\d+)\]/ matches in the string
BoundsMatches(bounds) ==
  {i \in 1..(Len(bounds) - 9) :
     /\ bounds[i] = "[" /\ bounds[i + 1] \in Digits /\ bounds[i + 2] = ","
     /\ bounds[i + 3] \in Digits /\ bounds[i + 4] = "]"
     /\ bounds[i + 5] = "[" /\ bounds[i + 6] \in Digits /\ bounds[i + 7] = ","
     /\ bounds[i + 8] \in Digits /\ bounds[i + 9] = "]"}

parseAndroidBounds(bounds) ==
  IF BoundsMatches(bounds) = {} THEN Bounds(Num(0), Num(0), Num(0), Num(0))
  ELSE LET i  == CHOOSE k \in BoundsMatches(bounds) : \A j \in BoundsMatches(bounds) : k <= j
           x1 == parseInt(<<bounds[i + 1]>>)
           y1 == parseInt(<<bounds[i + 3]>>)
           x2 == parseInt(<<bounds[i + 6]>>)
           y2 == parseInt(<<bounds[i + 8]>>)
       IN  Bounds(x1, y1, Minus(x2, x1), Minus(y2, y1))

\* attributes.x || '0'
OrZero(s) == IF Truthy(s) THEN s ELSE <<"0">>

parseIOSBounds(attributes) ==
  Bounds(parseInt(OrZero(attributes["x"])), parseInt(OrZero(attributes["y"])),
         parseInt(OrZero(attributes["width"])), parseInt(OrZero(attributes["height"])))

(***************************************************************************)
(* xmlToJSON: the JSONElement of a DOM node.  The path is the sequence of  *)
(* child indices; attribute values have their newlines replaced by the two *)
(* characters backslash, n.                                                *)
(***************************************************************************)
translateAttributes(node) ==
  [n \in AttrNames |-> ReplaceAll(getAttribute(node, n), NL, <<BS, "n">>)]

\* the path string of the child number index of the element of path parentPath
pathOfIndexOnly(parentPath, index) == <<ToString(index)>>

pathOf(parentPath, index) ==
  IF parentPath # << >> THEN parentPath \o <<".", ToString(index)>> ELSE <<ToString(index)>>

\* the path string translateRecursively gives the element at p: the empty
\* string to the element it is first called with, pathOf below it
RECURSIVE pathString(_)
pathString(p) ==
  IF p = << >> THEN << >> ELSE pathOf(pathString(Parent(p)), p[Len(p)])

\* path.split('.'): the pieces between the dots
RECURSIVE split(_, _)
split(path, piece) ==
  IF path = << >> THEN <<piece>>
  ELSE IF Head(path) = "." THEN <<piece>> \o split(Tail(path), << >>)
  ELSE split(Tail(path), piece \o <<Head(path)>>)

\* Number(piece) for the pieces that are a child index of one digit, and
\* for the empty piece, which is 0
Number(piece) ==
  IF piece = << >> THEN 0 ELSE CHOOSE n \in 0..9 : <<ToString(n)>> = piece

\* findDOMNodeByPath on the path string
findDOMNodeByPathString(doc, path) ==
  IF path = << >> THEN documentElement(doc)
  ELSE LET pieces == split(path, << >>)
       IN  walkPath(doc, documentElement(doc), [k \in 1..Len(pieces) |-> Number(pieces[k])])

translateRecursively(doc, p) ==
  [tagName |-> doc[p].tag, attributes |-> translateAttributes(doc[p]), path |-> p]

(***************************************************************************)
(* The page source is the document it is the text of.  Two sources have no *)
(* element: the empty string, which has no node, and white space, a text   *)
(* node.  DOMParser.parseFromString is library code and the two lines of   *)
(* xmldom differ on them: the one called lenient here logs an error and    *)
(* returns undefined for the empty string and returns a document without   *)
(* a documentElement for white space; the one called strict throws a       *)
(* ParseError on both.                                                     *)
(***************************************************************************)
TextNode == <<-3>>

EmptySource == << >>

BlankSource == TextNode :> [tag |-> "#text", a |-> ("text" :> <<SP, NL>>)]

DOMParsers == {"lenient", "strict"}

parseFromString(source, parser) ==
  IF << >> \in DOMAIN source THEN [kind |-> "document", doc |-> source]
  ELSE IF parser = "strict" THEN [kind |-> "throws", doc |-> << >>]
  ELSE IF source = EmptySource THEN [kind |-> "undefined", doc |-> << >>]
  ELSE [kind |-> "document", doc |-> << >>]

\* the element xmlToJSON returns for a document without an element
EmptyElement == [tagName |-> "", attributes |-> [n \in AttrNames |-> NoStr], path |-> << >>]

\* null when parseFromString throws, and when it returns undefined, by the
\* TypeError of sourceDoc.getElementsByTagName; else the root of the tree
xmlToJSON(source, parser) ==
  LET sourceDoc == parseFromString(source, parser)
  IN  IF sourceDoc.kind # "document" THEN [isNull |-> TRUE, element |-> EmptyElement]
      ELSE IF documentElement(sourceDoc.doc) # NoNode
        THEN [isNull |-> FALSE, element |-> translateRecursively(sourceDoc.doc, << >>)]
      ELSE [isNull |-> FALSE, element |-> EmptyElement]

\* the JSONElement at a path of the tree xmlToJSON returns
JSONElementOf(source, parser, p) ==
  IF p = << >> THEN xmlToJSON(source, parser).element
  ELSE translateRecursively(parseFromString(source, parser).doc, p)

xmlToDOM(source, parser) ==
  LET doc == parseFromString(source, parser)
  IN  [isNull |-> doc.kind # "document", doc |-> doc.doc]

(***************************************************************************)
(* element-filter                                                          *)
(***************************************************************************)
ANDROID_INTERACTABLE_TAGS ==
  {"android.widget.EditText", "android.widget.AutoCompleteTextView",
   "android.widget.MultiAutoCompleteTextView", "android.widget.SearchView",
   "android.widget.Button", "android.widget.ImageButton", "android.widget.ToggleButton",
   "android.widget.CompoundButton", "android.widget.RadioButton", "android.widget.CheckBox",
   "android.widget.Switch", "android.widget.FloatingActionButton",
   "com.google.android.material.button.MaterialButton",
   "com.google.android.material.floatingactionbutton.FloatingActionButton",
   "android.widget.TextView", "android.widget.CheckedTextView",
   "android.widget.ImageView", "android.widget.QuickContactBadge",
   "android.widget.Spinner", "android.widget.SeekBar", "android.widget.RatingBar",
   "android.widget.ProgressBar", "android.widget.DatePicker", "android.widget.TimePicker",
   "android.widget.NumberPicker", "android.widget.AdapterView"}

ANDROID_LAYOUT_CONTAINERS ==
  {"android.view.ViewGroup", "android.view.View", "android.widget.FrameLayout",
   "android.widget.LinearLayout", "android.widget.RelativeLayout", "android.widget.GridLayout",
   "android.widget.TableLayout", "android.widget.TableRow", "android.widget.AbsoluteLayout",
   "androidx.constraintlayout.widget.ConstraintLayout",
   "androidx.coordinatorlayout.widget.CoordinatorLayout",
   "androidx.appcompat.widget.LinearLayoutCompat", "androidx.cardview.widget.CardView",
   "androidx.appcompat.widget.ContentFrameLayout",
   "androidx.appcompat.widget.FitWindowsFrameLayout",
   "android.widget.ScrollView", "android.widget.HorizontalScrollView",
   "android.widget.NestedScrollView", "androidx.core.widget.NestedScrollView",
   "androidx.recyclerview.widget.RecyclerView", "android.widget.ListView",
   "android.widget.GridView", "android.widget.AbsListView",
   "android.widget.ActionBarContainer", "android.widget.ActionBarOverlayLayout",
   "android.view.ViewStub", "androidx.appcompat.widget.ActionBarContainer",
   "androidx.appcompat.widget.ActionBarContextView",
   "androidx.appcompat.widget.ActionBarOverlayLayout",
   "com.android.internal.policy.DecorView", "android.widget.DecorView"}

IOS_INTERACTABLE_TAGS ==
  {"XCUIElementTypeTextField", "XCUIElementTypeSecureTextField", "XCUIElementTypeTextView",
   "XCUIElementTypeSearchField", "XCUIElementTypeButton", "XCUIElementTypeLink",
   "XCUIElementTypeStaticText", "XCUIElementTypeImage", "XCUIElementTypeIcon",
   "XCUIElementTypeSwitch", "XCUIElementTypeSlider", "XCUIElementTypeStepper",
   "XCUIElementTypeSegmentedControl", "XCUIElementTypePicker", "XCUIElementTypePickerWheel",
   "XCUIElementTypeDatePicker", "XCUIElementTypePageIndicator", "XCUIElementTypeCell",
   "XCUIElementTypeMenuItem", "XCUIElementTypeMenuBarItem", "XCUIElementTypeCheckBox",
   "XCUIElementTypeRadioButton", "XCUIElementTypeToggle", "XCUIElementTypeKey",
   "XCUIElementTypeKeyboard", "XCUIElementTypeAlert", "XCUIElementTypeSheet"}

IOS_LAYOUT_CONTAINERS ==
  {"XCUIElementTypeOther", "XCUIElementTypeGroup", "XCUIElementTypeLayoutItem",
   "XCUIElementTypeScrollView", "XCUIElementTypeTable", "XCUIElementTypeCollectionView",
   "XCUIElementTypeScrollBar", "XCUIElementTypeNavigationBar", "XCUIElementTypeTabBar",
   "XCUIElementTypeToolbar", "XCUIElementTypeStatusBar", "XCUIElementTypeMenuBar",
   "XCUIElementTypeWindow", "XCUIElementTypeSheet", "XCUIElementTypeDrawer",
   "XCUIElementTypeDialog", "XCUIElementTypePopover", "XCUIElementTypePopUpButton",
   "XCUIElementTypeOutline", "XCUIElementTypeOutlineRow", "XCUIElementTypeBrowser",
   "XCUIElementTypeSplitGroup", "XCUIElementTypeSplitter", "XCUIElementTypeApplication"}

\* <<s, t>>: t is a proper substring of s, for the names of the tables above
ProperSubstrings ==
  {<<"android.view.ViewGroup", "android.view.View">>,
   <<"android.view.ViewStub", "android.view.View">>,
   <<"XCUIElementTypeMenuBarItem", "XCUIElementTypeMenuBar">>,
   <<"XCUIElementTypeOutlineRow", "XCUIElementTypeOutline">>,
   <<"XCUIElementTypePickerWheel", "XCUIElementTypePicker">>,
   <<"XCUIElementTypeKeyboard", "XCUIElementTypeKey">>}

\* String.prototype.includes (endsWith implies it)
Includes(s, t) == s = t \/ <<s, t>> \in ProperSubstrings

matchesTagList(tagName, tagList) ==
  tagName \in tagList \/ \E tag \in tagList : Includes(tagName, tag)

matchesTagFilters(element, includeTagNames, excludeTagNames) ==
  IF includeTagNames # {} /\ ~matchesTagList(element.tagName, includeTagNames) THEN FALSE
  ELSE IF matchesTagList(element.tagName, excludeTagNames) THEN FALSE
  ELSE TRUE

matchesAttributeFilters(element, requireAttributes, minAttributeCount) ==
  IF requireAttributes # {} /\ ~\E attr \in requireAttributes : Truthy(element.attributes[attr])
    THEN FALSE
  ELSE IF minAttributeCount > 0
          /\ Cardinality({n \in AttrNames : element.attributes[n] # NoStr}) < minAttributeCount
    THEN FALSE
  ELSE TRUE

Is(v, word) == v = <<word>>

IsAndroidAutomation(automationName) == automationName = "uiautomator2"

isInteractableElement(element, automationName) ==
  LET isAndroid == IsAndroidAutomation(automationName)
      interactableTags == IF isAndroid THEN ANDROID_INTERACTABLE_TAGS ELSE IOS_INTERACTABLE_TAGS
      a == element.attributes
  IN  \/ matchesTagList(element.tagName, interactableTags)
      \/ /\ isAndroid
         /\ \/ Is(a["clickable"], "true") \/ Is(a["focusable"], "true")
            \/ Is(a["checkable"], "true") \/ Is(a["long-clickable"], "true")
      \/ ~isAndroid /\ Is(a["accessible"], "true")

isLayoutContainer(element, platform) ==
  matchesTagList(element.tagName,
                 IF platform = "android" THEN ANDROID_LAYOUT_CONTAINERS ELSE IOS_LAYOUT_CONTAINERS)

Meaningful(v) == Truthy(v) /\ TrimNonEmpty(v) /\ ~Is(v, "null")

hasMeaningfulContent(element, platform) ==
  LET a == element.attributes
  IN  \/ Meaningful(a["text"])
      \/ platform = "android" /\ Meaningful(a["content-desc"])
      \/ platform # "android" /\ (Meaningful(a["label"]) \/ Meaningful(a["name"]))

\* FilterOptions with the defaults of shouldIncludeElement filled in
FilterOptions(excludeTagNames, fetchableOnly) ==
  [includeTagNames |-> {}, excludeTagNames |-> excludeTagNames, requireAttributes |-> {},
   minAttributeCount |-> 0, fetchableOnly |-> fetchableOnly, clickableOnly |-> FALSE,
   visibleOnly |-> TRUE]

EmptyFilters == FilterOptions({"hierarchy"}, FALSE)

getDefaultFilters(platform, includeContainers) ==
  LET layoutContainers ==
        IF platform = "android" THEN ANDROID_LAYOUT_CONTAINERS ELSE IOS_LAYOUT_CONTAINERS
  IN  FilterOptions(IF includeContainers THEN {"hierarchy"}
                    ELSE {"hierarchy"} \cup layoutContainers,
                    ~includeContainers)

shouldIncludeElement(element, filters, automationName) ==
  LET isAndroid == IsAndroidAutomation(automationName) IN
  IF ~matchesTagFilters(element, filters.includeTagNames, filters.excludeTagNames) THEN FALSE
  ELSE IF ~matchesAttributeFilters(element, filters.requireAttributes, filters.minAttributeCount)
    THEN FALSE
  ELSE IF filters.clickableOnly /\ ~Is(element.attributes["clickable"], "true") THEN FALSE
  ELSE IF filters.visibleOnly /\ isAndroid /\ Is(element.attributes["displayed"], "false")
    THEN FALSE
  ELSE IF filters.visibleOnly /\ ~isAndroid /\ Is(element.attributes["visible"], "false")
    THEN FALSE
  ELSE IF filters.fetchableOnly /\ ~isInteractableElement(element, automationName) THEN FALSE
  ELSE TRUE

\* shouldProcess without the rescue of the containers that have a content
shouldProcessFiltersOnly(element, ctx) ==
  shouldIncludeElement(element, ctx.filters, ctx.automationName)

shouldProcess(element, ctx) ==
  \/ shouldIncludeElement(element, ctx.filters, ctx.automationName)
  \/ isLayoutContainer(element, ctx.platform) /\ hasMeaningfulContent(element, ctx.platform)

(***************************************************************************)
(* locator-generation.  A locator is [strategy, value] and, for the        *)
(* properties, what the value was built from: xp, the XPath that selects   *)
(* what the locator selects; kind, the branch that emitted it; embedded,   *)
(* the attribute values as they were written into a UiSelector or          *)
(* predicate string.                                                       *)
(***************************************************************************)
TextMaxLen == 100

maxDepth == 3

isValidValue(value) == value # NoStr /\ ~Is(value, "null") /\ TrimNonEmpty(value)

escapeText(text) == ReplaceAll(ReplaceAll(text, DQ, <<BS, DQ>>), NL, <<BS, "n">>)

Locator(strategy, value, xp, kind, embedded) ==
  [strategy |-> strategy, value |-> value, xp |-> xp, kind |-> kind, embedded |-> embedded]

Embedded(attr, written) == [attr |-> attr, written |-> written]

RECURSIVE Join(_, _)
Join(parts, sep) ==
  IF parts = << >> THEN << >>
  ELSE IF Len(parts) = 1 THEN parts[1]
  ELSE parts[1] \o sep \o Join(Tail(parts), sep)

RenderLit(l) ==
  IF l.q = "concat"
    THEN <<"concat(">>
         \o Join([i \in 1..Len(l.parts) |-> <<l.parts[i].q>> \o l.parts[i].body \o <<l.parts[i].q>>],
                 <<",">>)
         \o <<")">>
    ELSE <<l.q>> \o l.body \o <<l.q>>

RenderStep(st) ==
  <<st.tag>>
  \o (IF st.conds = << >> THEN << >>
      ELSE <<"[">>
           \o Join([j \in 1..Len(st.conds) |->
                      <<"@", st.conds[j].attr, "=">> \o RenderLit(st.conds[j].lit)],
                   <<" and ">>)
           \o <<"]">>)
  \o (IF st.pos = 0 THEN << >> ELSE <<"[", ToString(st.pos), "]">>)

\* the expression as the string the code builds
RenderXPath(xp) ==
  LET path == Concat([i \in 1..Len(xp.steps) |-> <<xp.steps[i].axis>> \o RenderStep(xp.steps[i])])
  IN  IF xp.index = 0 THEN path ELSE <<"(">> \o path \o <<")[", ToString(xp.index), "]">>

\* `name("arg")`
Call(name, arg) == <<name, "(", DQ>> \o arg \o <<DQ, ")">>

\* `android=new UiSelector().${parts.join('.')}`
UiSelector(parts) == <<"android=new UiSelector()", ".">> \o Join(parts, <<".">>)

\* generateIndexedUiAutomator leaving the instance() call out
generateIndexedUiAutomatorBare(baseSelector, index) == baseSelector

generateIndexedUiAutomator(baseSelector, index) ==
  baseSelector \o <<".instance(", ToString(index - 1), ")">>

\* ctx.parsedDOM is never null here: xmlToDOM parses the string xmlToJSON parsed
checkUniqueness(ctx, xp, targetNode) == checkXPathUniqueness(ctx.parsedDOM, xp, targetNode)

\* getSiblingIndex taking every element for the first of its siblings
getSiblingIndexFirst(doc, element) == 1

getSiblingIndex(doc, element) == PositionOf(doc, element, doc[element].tag)

countSiblings(doc, element) ==
  IF element = << >> THEN 1
  ELSE Cardinality({q \in ChildrenOf(doc, Parent(element)) : doc[q].tag = doc[element].tag})

RECURSIVE firstUnique(_, _, _)
firstUnique(ctx, element, attrs) ==
  IF attrs = << >> THEN << >>
  ELSE LET value == getAttribute(ctx.parsedDOM[element], Head(attrs))
           cond  == Cond(Head(attrs), escapeXPathValue(value))
       IN  IF /\ Truthy(value) /\ TrimNonEmpty(value)
              /\ checkXPathUniqueness(ctx.parsedDOM, AnyWithAttr(cond.attr, cond.lit), NoNode).isUnique
             THEN <<cond>>
             ELSE firstUnique(ctx, element, Tail(attrs))

\* the condition `@attr=value` of the first unique attribute, << >> for null
findUniqueAttribute(ctx, element) ==
  firstUnique(ctx, element,
              IF ctx.isAndroid THEN <<"resource-id", "content-desc", "text">>
              ELSE <<"name", "label", "value">>)

RECURSIVE hierarchicalParts(_, _, _, _)
hierarchicalParts(ctx, current, depth, pathParts) ==
  IF current = DOC \/ depth >= maxDepth THEN pathParts
  ELSE LET doc == ctx.parsedDOM
           tagName == doc[current].tag
           uniqueAttr == findUniqueAttribute(ctx, current)
       IN  IF uniqueAttr # << >>
             THEN <<Step("//", tagName, uniqueAttr, 0)>> \o pathParts
             ELSE hierarchicalParts(ctx, ParentOf(current), depth + 1,
                    <<Step("/", tagName, << >>,
                           IF countSiblings(doc, current) > 1
                             THEN getSiblingIndex(doc, current) ELSE 0)>>
                    \o pathParts)

\* never null: the loop runs at least once
buildHierarchicalXPath(ctx, element) ==
  LET pathParts == hierarchicalParts(ctx, element, 0, << >>)
  IN  XP([i \in 1..Len(pathParts) |->
            IF i = 1 THEN [pathParts[i] EXCEPT !.axis = "//"] ELSE pathParts[i]])

XPathLocator(xp, kind) == Locator("xpath", RenderXPath(xp), xp, kind, << >>)

\* addXPathLocator leaving out the expressions that are not unique
addXPathLocatorUniqueOnly(xp, ctx, targetNode) ==
  IF checkUniqueness(ctx, xp, targetNode).isUnique THEN <<XPathLocator(xp, "unique")>>
  ELSE << >>

addXPathLocator(xp, ctx, targetNode) ==
  LET uniqueness == checkUniqueness(ctx, xp, targetNode)
  IN  IF uniqueness.isUnique THEN <<XPathLocator(xp, "unique")>>
      ELSE IF uniqueness.index # 0
        THEN <<XPathLocator(generateIndexedXPath(xp, uniqueness.index), "indexed")>>
      ELSE (IF targetNode # NoNode
              THEN <<XPathLocator(buildHierarchicalXPath(ctx, targetNode), "hierarchical")>>
              ELSE << >>)
           \o <<XPathLocator(xp, "last-resort")>>

HierarchyChildren == XP(<<Step("/", "hierarchy", << >>, 0), Step("/", "*", << >>, 0)>>)

\* isInUiAutomatorScope taking every element for one of the application
isInUiAutomatorScopeAlways(element, doc) == TRUE

isInUiAutomatorScope(element, doc) ==
  LET hierarchyNodes == evaluateXPath(doc, HierarchyChildren)
      lastIndex == Len(hierarchyNodes)
  IN  IF lastIndex = 0 THEN TRUE
      ELSE IF element.path = << >> THEN TRUE
      ELSE element.path[1] = lastIndex - 1

When(cond, x) == IF cond THEN <<x>> ELSE << >>

\* the parts of the compound selector, with the attribute each one embeds
uiAutomatorParts(attrs) ==
  When(isValidValue(attrs["resource-id"]),
       [call |-> Call("resourceId", attrs["resource-id"]),
        emb |-> Embedded("resource-id", attrs["resource-id"]),
        cond |-> Cond("resource-id", DQLit(attrs["resource-id"], attrs["resource-id"]))])
  \o When(isValidValue(attrs["text"]) /\ Len(attrs["text"]) < TextMaxLen,
       [call |-> Call("text", escapeText(attrs["text"])),
        emb |-> Embedded("text", escapeText(attrs["text"])),
        cond |-> Cond("text", DQLit(attrs["text"], attrs["text"]))])
  \o When(isValidValue(attrs["content-desc"]),
       [call |-> Call("description", attrs["content-desc"]),
        emb |-> Embedded("content-desc", attrs["content-desc"]),
        cond |-> Cond("content-desc", DQLit(attrs["content-desc"], attrs["content-desc"]))])
  \o When(isValidValue(attrs["class"]),
       [call |-> Call("className", attrs["class"]),
        emb |-> Embedded("class", attrs["class"]),
        cond |-> Cond("class", DQLit(attrs["class"], attrs["class"]))])

\* << >> for null
buildUiAutomatorSelector(element) ==
  LET parts == uiAutomatorParts(element.attributes)
  IN  IF parts = << >> THEN << >>
      ELSE <<Locator("uiautomator",
                     UiSelector([i \in 1..Len(parts) |-> parts[i].call]),
                     XP(<<Step("//", "*", [i \in 1..Len(parts) |-> parts[i].cond], 0)>>),
                     "unchecked",
                     [i \in 1..Len(parts) |-> parts[i].emb])>>

buildXPath(element, isAndroid) ==
  LET attrs == element.attributes
      conditions ==
        IF isAndroid
          THEN When(isValidValue(attrs["resource-id"]),
                    Cond("resource-id", DQLit(attrs["resource-id"], attrs["resource-id"])))
               \o When(isValidValue(attrs["content-desc"]),
                    Cond("content-desc", DQLit(attrs["content-desc"], attrs["content-desc"])))
               \o When(isValidValue(attrs["text"]) /\ Len(attrs["text"]) < TextMaxLen,
                    Cond("text", DQLit(escapeText(attrs["text"]), attrs["text"])))
          ELSE When(isValidValue(attrs["name"]), Cond("name", DQLit(attrs["name"], attrs["name"])))
               \o When(isValidValue(attrs["label"]),
                    Cond("label", DQLit(attrs["label"], attrs["label"])))
               \o When(isValidValue(attrs["value"]),
                    Cond("value", DQLit(attrs["value"], attrs["value"])))
  IN  XP(<<Step("//", element.tagName, conditions, 0)>>)

\* `-ios predicate string:${conditions.join(' AND ')}`
PredicateString(conditions) == <<"-ios predicate string:">> \o Join(conditions, <<" AND ">>)

\* `attr == "written"`
Comparison(attr, written) == <<attr, " == ", DQ>> \o written \o <<DQ>>

predicateParts(attrs) ==
  When(isValidValue(attrs["name"]),
       [text |-> Comparison("name", escapeText(attrs["name"])),
        emb |-> <<Embedded("name", escapeText(attrs["name"]))>>,
        cond |-> <<Cond("name", DQLit(attrs["name"], attrs["name"]))>>])
  \o When(isValidValue(attrs["label"]),
       [text |-> Comparison("label", escapeText(attrs["label"])),
        emb |-> <<Embedded("label", escapeText(attrs["label"]))>>,
        cond |-> <<Cond("label", DQLit(attrs["label"], attrs["label"]))>>])
  \o When(isValidValue(attrs["value"]),
       [text |-> Comparison("value", escapeText(attrs["value"])),
        emb |-> <<Embedded("value", escapeText(attrs["value"]))>>,
        cond |-> <<Cond("value", DQLit(attrs["value"], attrs["value"]))>>])
  \o When(Is(attrs["visible"], "true"),
       [text |-> <<"visible == 1">>, emb |-> << >>,
        cond |-> <<Cond("visible", DQLit(<<"true">>, <<"true">>))>>])
  \o When(Is(attrs["enabled"], "true"),
       [text |-> <<"enabled == 1">>, emb |-> << >>,
        cond |-> <<Cond("enabled", DQLit(<<"true">>, <<"true">>))>>])

\* << >> for null
buildPredicateString(element) ==
  LET conditions == predicateParts(element.attributes)
  IN  IF conditions = << >> THEN << >>
      ELSE <<Locator("predicate-string",
                     PredicateString([i \in 1..Len(conditions) |-> conditions[i].text]),
                     XP(<<Step("//", "*", Concat([i \in 1..Len(conditions) |-> conditions[i].cond]), 0)>>),
                     "unchecked",
                     Concat([i \in 1..Len(conditions) |-> conditions[i].emb]))>>

\* tagName.startsWith('XCUI') and type.startsWith('XCUIElementType'), for the tags of the tables
StartsWithXCUI(tagName) == tagName \in IOS_INTERACTABLE_TAGS \cup IOS_LAYOUT_CONTAINERS

\* `**/${tagName}`
ClassChain(tagName) == <<"-ios class chain:", "**/", tagName>>

buildClassChain(element) ==
  LET attrs == element.attributes
      tagName == element.tagName
      attr == IF isValidValue(attrs["label"]) THEN "label"
              ELSE IF isValidValue(attrs["name"]) THEN "name" ELSE ""
  IN  IF ~StartsWithXCUI(tagName) THEN << >>
      ELSE IF attr = ""
        THEN <<Locator("class-chain", ClassChain(tagName),
                       XP(<<Step("//", tagName, << >>, 0)>>), "unchecked", << >>)>>
      ELSE <<Locator("class-chain",
                     ClassChain(tagName) \o <<"[", BT>>
                       \o Comparison(attr, escapeText(attrs[attr])) \o <<BT, "]">>,
                     XP(<<Step("//", tagName, <<Cond(attr, DQLit(attrs[attr], attrs[attr]))>>, 0)>>),
                     "unchecked",
                     <<Embedded(attr, escapeText(attrs[attr]))>>)>>

(***************************************************************************)
(* A simple candidate: one attribute, the XPath its uniqueness is checked  *)
(* with, the selector it becomes, whether the strategy can carry an        *)
(* index and whether it needs the UiAutomator scope.                       *)
(***************************************************************************)
Candidate(strategy, xp, value, embedded, indexed, scoped) ==
  [strategy |-> strategy, xp |-> xp, value |-> value, embedded |-> embedded,
   indexed |-> indexed, scoped |-> scoped]

simpleCandidates(element, isAndroid) ==
  LET attrs == element.attributes
      resourceId == attrs["resource-id"]
      contentDesc == attrs["content-desc"]
      text == attrs["text"]
      name == attrs["name"]
      label == attrs["label"]
      value == attrs["value"]
  IN  IF isAndroid
        THEN When(isValidValue(resourceId),
                  Candidate("id", AnyWithAttr("resource-id", DQLit(resourceId, resourceId)),
                            UiSelector(<<Call("resourceId", resourceId)>>),
                            <<Embedded("resource-id", resourceId)>>, TRUE, TRUE))
             \o When(isValidValue(contentDesc),
                  Candidate("accessibility-id",
                            AnyWithAttr("content-desc", DQLit(contentDesc, contentDesc)),
                            <<"~">> \o contentDesc, << >>, FALSE, FALSE))
             \o When(isValidValue(text) /\ Len(text) < TextMaxLen,
                  Candidate("text", AnyWithAttr("text", DQLit(escapeText(text), text)),
                            UiSelector(<<Call("text", escapeText(text))>>),
                            <<Embedded("text", escapeText(text))>>, TRUE, TRUE))
        ELSE When(isValidValue(name),
                  Candidate("accessibility-id", AnyWithAttr("name", DQLit(name, name)),
                            <<"~">> \o name, << >>, FALSE, FALSE))
             \o When(isValidValue(label) /\ label # name,
                  Candidate("predicate-string",
                            AnyWithAttr("label", DQLit(escapeText(label), label)),
                            PredicateString(<<Comparison("label", escapeText(label))>>),
                            <<Embedded("label", escapeText(label))>>, FALSE, FALSE))
             \o When(isValidValue(value),
                  Candidate("predicate-string",
                            AnyWithAttr("value", DQLit(escapeText(value), value)),
                            PredicateString(<<Comparison("value", escapeText(value))>>),
                            <<Embedded("value", escapeText(value))>>, FALSE, FALSE))

\* simpleLocator asking for the UiAutomator scope whatever the strategy
simpleLocatorScoped(c, ctx, inUiAutomatorScope, targetNode) ==
  LET uniqueness == checkUniqueness(ctx, c.xp, targetNode)
  IN  IF uniqueness.isUnique /\ inUiAutomatorScope
        THEN <<Locator(c.strategy, c.value, c.xp, "unique", c.embedded)>>
      ELSE IF c.indexed /\ uniqueness.index # 0 /\ inUiAutomatorScope
        THEN <<Locator(c.strategy, generateIndexedUiAutomator(c.value, uniqueness.index),
                       generateIndexedXPath(c.xp, uniqueness.index), "indexed", c.embedded)>>
      ELSE << >>

\* simpleLocator never asking for the UiAutomator scope
simpleLocatorUnscoped(c, ctx, inUiAutomatorScope, targetNode) ==
  LET uniqueness == checkUniqueness(ctx, c.xp, targetNode)
  IN  IF uniqueness.isUnique
        THEN <<Locator(c.strategy, c.value, c.xp, "unique", c.embedded)>>
      ELSE IF c.indexed /\ uniqueness.index # 0
        THEN <<Locator(c.strategy, generateIndexedUiAutomator(c.value, uniqueness.index),
                       generateIndexedXPath(c.xp, uniqueness.index), "indexed", c.embedded)>>
      ELSE << >>

\* what one candidate adds to the results
simpleLocator(c, ctx, inUiAutomatorScope, targetNode) ==
  LET uniqueness == checkUniqueness(ctx, c.xp, targetNode)
      allowed == ~c.scoped \/ inUiAutomatorScope
  IN  IF uniqueness.isUnique /\ allowed
        THEN <<Locator(c.strategy, c.value, c.xp, "unique", c.embedded)>>
      ELSE IF c.indexed /\ uniqueness.index # 0 /\ allowed
        THEN <<Locator(c.strategy, generateIndexedUiAutomator(c.value, uniqueness.index),
                       generateIndexedXPath(c.xp, uniqueness.index), "indexed", c.embedded)>>
      ELSE << >>

getSimpleSuggestedLocators(element, ctx, automationName, targetNode) ==
  LET isAndroid == IsAndroidAutomation(automationName)
      inUiAutomatorScope ==
        IF isAndroid THEN isInUiAutomatorScope(element, ctx.parsedDOM) ELSE TRUE
      cands == simpleCandidates(element, isAndroid)
  IN  Concat([i \in 1..Len(cands) |->
                simpleLocator(cands[i], ctx, inUiAutomatorScope, targetNode)])

getComplexSuggestedLocators(element, ctx, automationName, targetNode) ==
  LET isAndroid == IsAndroidAutomation(automationName)
      inUiAutomatorScope ==
        IF isAndroid THEN isInUiAutomatorScope(element, ctx.parsedDOM) ELSE TRUE
      class == element.attributes["class"]
      type == element.tagName
  IN  IF isAndroid
        THEN (IF inUiAutomatorScope THEN buildUiAutomatorSelector(element) ELSE << >>)
             \o addXPathLocator(buildXPath(element, TRUE), ctx, targetNode)
             \o When(inUiAutomatorScope /\ isValidValue(class),
                     Locator("class-name", UiSelector(<<Call("className", class)>>),
                             AnyWithAttr("class", DQLit(class, class)), "unchecked",
                             <<Embedded("class", class)>>))
        ELSE buildPredicateString(element)
             \o buildClassChain(element)
             \o addXPathLocator(buildXPath(element, FALSE), ctx, targetNode)
             \o When(StartsWithXCUI(type),
                     Locator("class-name", ClassChain(type),
                             XP(<<Step("//", type, << >>, 0)>>), "unchecked", << >>))

\* the loop of getSuggestedLocators without its seen set
dedupeKeepsAll(locators, seen) == locators

\* keeps the first locator of every value
RECURSIVE dedupe(_, _)
dedupe(locators, seen) ==
  IF locators = << >> THEN << >>
  ELSE IF Head(locators).value \in seen THEN dedupe(Tail(locators), seen)
  ELSE <<Head(locators)>> \o dedupe(Tail(locators), seen \cup {Head(locators).value})

getSuggestedLocators(element, automationName, ctx, targetNode) ==
  dedupe(getSimpleSuggestedLocators(element, ctx, automationName, targetNode)
         \o getComplexSuggestedLocators(element, ctx, automationName, targetNode),
         {})

\* the object keeps the first locator of every strategy
locatorsToObject(locators) ==
  LET first(s) == CHOOSE i \in 1..Len(locators) :
                    /\ locators[i].strategy = s
                    /\ \A j \in 1..(i - 1) : locators[j].strategy # s
  IN  [s \in {locators[i].strategy : i \in 1..Len(locators)} |-> locators[first(s)]]

(***************************************************************************)
(* generate-all-locators                                                   *)
(***************************************************************************)
parseBounds(element, platform) ==
  IF platform = "android" THEN parseAndroidBounds(element.attributes["bounds"])
  ELSE parseIOSBounds(element.attributes)

\* isWithinViewport taking a box that overlaps the viewport for one within it
isWithinViewportOverlapping(bounds, viewport) ==
  /\ Gt(bounds.width, Num(0))
  /\ Gt(bounds.height, Num(0))
  /\ Leq(bounds.x, Num(viewport.width))
  /\ Leq(bounds.y, Num(viewport.height))

isWithinViewport(bounds, viewport) ==
  /\ Geq(bounds.x, Num(0))
  /\ Geq(bounds.y, Num(0))
  /\ Gt(bounds.width, Num(0))
  /\ Gt(bounds.height, Num(0))
  /\ Leq(Plus(bounds.x, bounds.width), Num(viewport.width))
  /\ Leq(Plus(bounds.y, bounds.height), Num(viewport.height))

\* path is not a field of ElementWithLocators: it names the node the record is of
transformElement(element, locators, ctx) ==
  LET attrs == element.attributes
      bounds == parseBounds(element, ctx.platform)
  IN  [path |-> element.path,
       tagName |-> element.tagName,
       locators |-> locatorsToObject(locators),
       text |-> IF Truthy(attrs["text"]) THEN attrs["text"] ELSE attrs["label"],
       displayed |-> IF ctx.platform = "android" THEN ~Is(attrs["displayed"], "false")
                     ELSE ~Is(attrs["visible"], "false"),
       bounds |-> bounds,
       isInViewport |-> isWithinViewport(bounds, ctx.viewportSize)]

Outcome(records, logged, thrown) == [records |-> records, logged |-> logged, thrown |-> thrown]

\* processElement without its try block: the exception leaves traverseTree
processElementUncaught(element, ctx, throws) ==
  IF ~shouldProcess(element, ctx) THEN Outcome(<< >>, 0, FALSE)
  ELSE IF throws THEN Outcome(<< >>, 0, TRUE)
  ELSE LET targetNode == findDOMNodeByPath(ctx.parsedDOM, element.path)
           locators == getSuggestedLocators(element, ctx.automationName, ctx, targetNode)
       IN  IF Len(locators) = 0 THEN Outcome(<< >>, 0, FALSE)
           ELSE Outcome(<<transformElement(element, locators, ctx)>>, 0, FALSE)

\* throws: locator construction for this element raises an exception; the
\* try block of processElement catches it and logs the path
processElement(element, ctx, throws) ==
  IF ~shouldProcess(element, ctx) THEN Outcome(<< >>, 0, FALSE)
  ELSE IF throws THEN Outcome(<< >>, 1, FALSE)
  ELSE LET targetNode == findDOMNodeByPath(ctx.parsedDOM, element.path)
           locators == getSuggestedLocators(element, ctx.automationName, ctx, targetNode)
       IN  IF Len(locators) = 0 THEN Outcome(<< >>, 0, FALSE)
           ELSE Outcome(<<transformElement(element, locators, ctx)>>, 0, FALSE)

(***************************************************************************)
(* The inputs: a page source of at most MaxNodes elements below the        *)
(* document element, every element one of the profiles of its platform.    *)
(***************************************************************************)
MaxNodes == 3

MaxTreeDepth == 3

MaxFaults == 1

Node(tag, fields) == [tag |-> tag, a |-> fields]

Bounds1 == <<"[", "0", ",", "0", "]", "[", "10", ",", "10", "]">>

Bounds2 == <<"[", "0", ",", "20", "]", "[", "10", ",", "30", "]">>

AndroidRoot == Node("hierarchy", "class" :> <<"hierarchy">>)

\* a button of a list of buttons that are all alike
SubmitButton(bounds) ==
  Node("android.widget.Button",
       ("class" :> <<"android.widget.Button">>) @@ ("resource-id" :> <<"id/btn">>)
       @@ ("text" :> <<"Submit">>) @@ ("bounds" :> bounds) @@ ("clickable" :> <<"true">>))

\* a layout container with a text
TextFrame(text, bounds) ==
  Node("android.widget.FrameLayout",
       ("class" :> <<"android.widget.FrameLayout">>) @@ ("text" :> text) @@ ("bounds" :> bounds))

WifiImage ==
  Node("android.widget.ImageView",
       ("class" :> <<"android.widget.ImageView">>) @@ ("content-desc" :> <<"Wifi">>)
       @@ ("bounds" :> Bounds1))

\* a text with both quotes and a newline, a description with a double quote
QuotedText ==
  Node("android.widget.TextView",
       ("class" :> <<"android.widget.TextView">>) @@ ("text" :> <<DQ, "a", SQ, NL>>)
       @@ ("content-desc" :> <<"b", DQ>>) @@ ("bounds" :> Bounds2))

AndroidProfiles ==
  {SubmitButton(Bounds1), TextFrame(<<"Title">>, Bounds1), TextFrame(<<SP>>, Bounds2),
   WifiImage, QuotedText}

FaultProfiles == {SubmitButton(Bounds1), TextFrame(<<"Title">>, Bounds1), WifiImage}

IOSRoot ==
  Node("XCUIElementTypeApplication", ("name" :> <<"App">>) @@ ("visible" :> <<"true">>))

Rect(y) == ("x" :> <<"0">>) @@ ("y" :> <<y>>) @@ ("width" :> <<"10">>) @@ ("height" :> <<"10">>)

OKButton(y) ==
  Node("XCUIElementTypeButton",
       ("name" :> <<"ok">>) @@ ("label" :> <<"OK">>) @@ ("visible" :> <<"true">>)
       @@ ("enabled" :> <<"true">>) @@ Rect(y))

IOSProfiles ==
  { OKButton("0"), OKButton("20"),
    Node("XCUIElementTypeOther",
         ("label" :> <<"Menu">>) @@ ("visible" :> <<"false">>) @@ Rect("0")),
    Node("XCUIElementTypeStaticText",
         ("label" :> <<"Hint">>) @@ ("visible" :> <<"false">>) @@ Rect("20")),
    Node("XCUIElementTypeStaticText",
         ("label" :> <<"a", DQ, NL>>) @@ ("value" :> <<"v">>) @@ ("visible" :> <<"true">>)
         @@ Rect("20")) }

\* the ordered trees of k elements below the document element
RECURSIVE Shapes(_)
Shapes(k) ==
  IF k = 0 THEN {{<< >>}}
  ELSE UNION {{S \cup {Append(p, Cardinality({q \in S : Len(q) = Len(p) + 1 /\ Parent(q) = p}))} :
                 p \in {q \in S : Len(q) < MaxTreeDepth}} : S \in Shapes(k - 1)}

\* the page sources of the shape S: the root and, at every other place, a profile
Documents(S, root, profiles) ==
  {[p \in S |-> IF p = << >> THEN root ELSE f[p]] : f \in [S \ {<< >>} -> profiles]}

Platforms == {"android", "ios"}

FilterConfigs(platform) ==
  {EmptyFilters, getDefaultFilters(platform, FALSE), getDefaultFilters(platform, TRUE)}

VARIABLES
  sourceXML,   \* the page source, as the document it parses to
  platform,    \* options.platform
  filters,     \* options.filters
  faulty,      \* the elements whose locator construction throws
  pc,          \* "call", "traverse", "returned" or "thrown"
  stack,       \* the elements traverseTree has still to visit, next first
  results,     \* ctx.results
  errors,      \* the number of errors processElement has logged
  viewportSize, \* options.viewportSize
  domParser,   \* which DOMParser the build has
  history,     \* the calls that have returned: their arguments and results
  state,       \* browser.tool.ts: browsers, currentSession, sessionMetadata
  calls,       \* the tool calls made so far, each with the await it is at
  driver,      \* the sessions the WebDriver and Appium servers have created
  visibleArgs,   \* the arguments of the get_visible_elements call, << >> without one
  visibleResult  \* what the get_visible_elements call encodes, << >> before it does

locatorVars ==
  <<sourceXML, platform, filters, faulty, pc, stack, results, errors, viewportSize,
    domParser, history>>

sessionVars == <<state, calls, driver>>

visibleVars == <<visibleArgs, visibleResult>>

vars == <<locatorVars, sessionVars, visibleVars>>

\* no call of get_visible_elements
NoVisibleElementsCall == visibleArgs = << >> /\ visibleResult = << >>

\* state.currentSession = null
NoSession == 0

\* the module of browser.tool.ts as it is loaded, and no session at the servers
NoSessions ==
  /\ state = [browsers |-> {}, currentSession |-> NoSession, sessionMetadata |-> << >>]
  /\ calls = << >>
  /\ driver = [created |-> 0, alive |-> {}]

\* options.viewportSize ?? { width: 9999, height: 9999 }
DefaultViewportSize == [width |-> 9999, height |-> 9999]

ProcessingContext ==
  [sourceXML |-> sourceXML,
   platform |-> platform,
   automationName |-> IF platform = "android" THEN "uiautomator2" ELSE "xcuitest",
   filters |-> filters,
   viewportSize |-> viewportSize,
   parsedDOM |-> xmlToDOM(sourceXML, domParser).doc,
   isAndroid |-> platform = "android"]

InitWith(root, profiles, maxFaults) ==
  /\ \E k \in 1..MaxNodes : \E S \in Shapes(k) : sourceXML \in Documents(S, root, profiles)
  /\ filters \in FilterConfigs(platform)
  /\ faulty \in {F \in SUBSET DOMAIN sourceXML : Cardinality(F) <= maxFaults}
  /\ pc = "call"
  /\ stack = << >>
  /\ results = << >>
  /\ errors = 0
  /\ viewportSize = DefaultViewportSize
  /\ domParser = "lenient"
  /\ history = << >>
  /\ NoSessions
  /\ NoVisibleElementsCall

Init ==
  /\ platform \in Platforms
  /\ InitWith(IF platform = "android" THEN AndroidRoot ELSE IOSRoot,
              IF platform = "android" THEN AndroidProfiles ELSE IOSProfiles, 0)

\* generateAllElementLocators pushing to the results of the call before
GenerateAllElementLocatorsSharedResults ==
  /\ pc = "call"
  /\ IF xmlToJSON(sourceXML, domParser).isNull
       THEN pc' = "returned" /\ stack' = << >>
       ELSE pc' = "traverse" /\ stack' = << << >> >>
  /\ UNCHANGED <<sourceXML, platform, filters, faulty, results, errors, viewportSize,
                 domParser, history>>
  /\ UNCHANGED sessionVars
  /\ UNCHANGED visibleVars

\* generateAllElementLocators up to the call of traverseTree
GenerateAllElementLocators ==
  /\ pc = "call"
  /\ IF xmlToJSON(sourceXML, domParser).isNull
       THEN pc' = "returned" /\ stack' = << >>
       ELSE pc' = "traverse" /\ stack' = << << >> >>
  /\ results' = << >>
  /\ UNCHANGED <<sourceXML, platform, filters, faulty, errors, viewportSize, domParser, history>>
  /\ UNCHANGED sessionVars
  /\ UNCHANGED visibleVars

\* one call of traverseTree: processElement on the element, then its children
\* traverseTree not visiting the children of an element without a record
TraverseTreePruning ==
  /\ pc = "traverse"
  /\ stack # << >>
  /\ \E out \in {processElement(JSONElementOf(sourceXML, domParser, Head(stack)),
                                ProcessingContext, Head(stack) \in faulty)} :
       /\ results' = results \o out.records
       /\ errors' = errors + out.logged
       /\ IF out.thrown
            THEN pc' = "thrown" /\ stack' = << >>
            ELSE /\ pc' = pc
                 /\ stack' = (IF out.records = << >> THEN << >>
                              ELSE childNodesOf(sourceXML, Head(stack))) \o Tail(stack)
  /\ UNCHANGED <<sourceXML, platform, filters, faulty, viewportSize, domParser, history>>
  /\ UNCHANGED sessionVars
  /\ UNCHANGED visibleVars

TraverseTree ==
  /\ pc = "traverse"
  /\ stack # << >>
  /\ \E out \in {processElement(JSONElementOf(sourceXML, domParser, Head(stack)),
                                ProcessingContext, Head(stack) \in faulty)} :
       /\ results' = results \o out.records
       /\ errors' = errors + out.logged
       /\ IF out.thrown
            THEN pc' = "thrown" /\ stack' = << >>
            ELSE pc' = pc /\ stack' = childNodesOf(sourceXML, Head(stack)) \o Tail(stack)
  /\ UNCHANGED <<sourceXML, platform, filters, faulty, viewportSize, domParser, history>>
  /\ UNCHANGED sessionVars
  /\ UNCHANGED visibleVars

\* return ctx.results
Return ==
  /\ pc = "traverse"
  /\ stack = << >>
  /\ pc' = "returned"
  /\ UNCHANGED <<sourceXML, platform, filters, faulty, stack, results, errors, viewportSize,
                 domParser, history>>
  /\ UNCHANGED sessionVars
  /\ UNCHANGED visibleVars

Next == GenerateAllElementLocators \/ TraverseTree \/ Return

Spec == Init /\ [][Next]_vars

\* the same call when the construction of one element's locators may throw
InitFault ==
  /\ platform = "android"
  /\ InitWith(AndroidRoot, FaultProfiles, MaxFaults)

SpecFault == InitFault /\ [][Next]_vars

\* the same call on sources of elements whose attribute values hold quotes
\* or whose candidates repeat a selector
InitSuggestions ==
  /\ platform \in Platforms
  /\ InitWith(IF platform = "android" THEN AndroidRoot ELSE IOSRoot,
              IF platform = "android"
                THEN {QuotedText, TextFrame(<<SP>>, Bounds2), WifiImage}
                ELSE {p \in IOSProfiles : getAttribute(p, "y") = <<"20">>} \cup {OKButton("0")},
              0)

SpecSuggestions == InitSuggestions /\ [][Next]_vars

(***************************************************************************)
(* Calls of generateAllElementLocators one after the other, on sources     *)
(* with and without an element, under either DOMParser.                    *)
(***************************************************************************)
MaxCalls == 3

CallInputs ==
  [sourceXML : {EmptySource, BlankSource}, platform : Platforms]
  \cup [sourceXML : Documents({<< >>, <<0>>}, AndroidRoot, {WifiImage, SubmitButton(Bounds1)}),
        platform : {"android"}]
  \cup [sourceXML : Documents({<< >>, <<0>>}, IOSRoot, {OKButton("0")}), platform : {"ios"}]

CallFilters(p) == {EmptyFilters, getDefaultFilters(p, FALSE)}

InitCalls ==
  /\ \E input \in CallInputs : sourceXML = input.sourceXML /\ platform = input.platform
  /\ filters \in CallFilters(platform)
  /\ faulty = {}
  /\ pc = "call"
  /\ stack = << >>
  /\ results = << >>
  /\ errors = 0
  /\ viewportSize = DefaultViewportSize
  /\ domParser \in DOMParsers
  /\ history = << >>
  /\ NoSessions
  /\ NoVisibleElementsCall

\* the caller keeps what the call returned and calls again
CallAgain ==
  /\ pc = "returned"
  /\ Len(history) < MaxCalls - 1
  /\ history' = Append(history, [sourceXML |-> sourceXML, platform |-> platform,
                                 filters |-> filters, results |-> results])
  /\ \E input \in CallInputs : \E f \in CallFilters(input.platform) :
       /\ sourceXML' = input.sourceXML
       /\ platform' = input.platform
       /\ filters' = f
  /\ pc' = "call"
  /\ UNCHANGED <<faulty, stack, results, errors, viewportSize, domParser>>
  /\ UNCHANGED sessionVars
  /\ UNCHANGED visibleVars

NextCalls == GenerateAllElementLocators \/ TraverseTree \/ Return \/ CallAgain

SpecCalls == InitCalls /\ [][NextCalls]_vars

\* bounds attributes as a device reports them: boxes inside, at the edge of
\* and beyond a viewport of 20 by 20, an empty box, boxes with their corners
\* the wrong way round, a negative coordinate, no box at all
AndroidBoundsTexts ==
  { Bounds1, Bounds2,
    <<"[", "10", ",", "10", "]", "[", "20", ",", "20", "]">>,
    <<"[", "5", ",", "5", "]", "[", "5", ",", "5", "]">>,
    <<"[", "10", ",", "10", "]", "[", "5", ",", "20", "]">>,
    <<"[", "0", ",", "30", "]", "[", "10", ",", "20", "]">>,
    <<"[", "-", "5", ",", "0", "]", "[", "10", ",", "10", "]">>,
    <<"null">>, << >> }

BoundsButton(bounds) ==
  Node("android.widget.Button",
       ("class" :> <<"android.widget.Button">>) @@ ("text" :> <<"OK">>) @@ ("bounds" :> bounds))

IOSCoordinateTexts == {<<"0">>, <<"15">>, <<"-", "5">>}

IOSSizeTexts == {<<"10">>, <<"5", ".", "5">>, <<"0">>, <<"-", "5">>, << >>}

FrameButton(x, width, height) ==
  Node("XCUIElementTypeButton",
       ("label" :> <<"OK">>) @@ ("visible" :> <<"true">>)
       @@ ("x" :> x) @@ ("y" :> <<"0">>) @@ ("width" :> width) @@ ("height" :> height))

SmallViewportSize == [width |-> 20, height |-> 20]

\* the same call on the sources of one element, of any bounds
InitBounds ==
  /\ platform \in Platforms
  /\ sourceXML \in Documents({<< >>, <<0>>},
                             IF platform = "android" THEN AndroidRoot ELSE IOSRoot,
                             IF platform = "android"
                               THEN {BoundsButton(b) : b \in AndroidBoundsTexts}
                               ELSE {FrameButton(x, w, h) :
                                       x \in IOSCoordinateTexts, w \in IOSSizeTexts,
                                       h \in IOSSizeTexts})
  /\ filters \in FilterConfigs(platform)
  /\ faulty = {}
  /\ pc = "call"
  /\ stack = << >>
  /\ results = << >>
  /\ errors = 0
  /\ viewportSize \in {SmallViewportSize, DefaultViewportSize}
  /\ domParser = "lenient"
  /\ history = << >>
  /\ NoSessions
  /\ NoVisibleElementsCall

SpecBounds == InitBounds /\ [][Next]_vars

\* an OK button with a resource-id
AndroidOKButton(resourceId) ==
  Node("android.widget.Button",
       ("class" :> <<"android.widget.Button">>) @@ ("resource-id" :> <<resourceId>>)
       @@ ("text" :> <<"OK">>) @@ ("bounds" :> Bounds1) @@ ("clickable" :> <<"true">>))

ScenarioAProfiles ==
  {AndroidOKButton("id/ok1"), AndroidOKButton("id/ok2"),
   Node("android.widget.FrameLayout",
        ("class" :> <<"android.widget.FrameLayout">>) @@ ("bounds" :> Bounds2))}

\* the same call on the sources made of OK buttons and frames
InitScenarioA ==
  /\ platform = "android"
  /\ InitWith(AndroidRoot, ScenarioAProfiles, 0)

SpecScenarioA == InitScenarioA /\ [][Next]_vars

\* the same call on the sources made of Submit buttons at two places of
\* the screen
InitInstances ==
  /\ platform = "android"
  /\ InitWith(AndroidRoot, {SubmitButton(Bounds1), SubmitButton(Bounds2)}, 0)

SpecInstances == InitInstances /\ [][Next]_vars

(***************************************************************************)
(* The session tools: start_browser, start_app_session and close_session.  *)
(* A tool callback runs to its next await, and the callbacks of different  *)
(* tool calls take turns at the awaits.  A session id is the number of the *)
(* session among those the servers have created.  A call is [tool, args,   *)
(* at, sessionId, result]: at is the await it waits at, or "done" with the *)
(* result "text" (a text result), "error" (a text result that reports an   *)
(* error) or "rejected" (the callback threw).                              *)
(***************************************************************************)
MaxToolCalls == 3

ToolCall(tool, args, at, sessionId, result) ==
  [tool |-> tool, args |-> args, at |-> at, sessionId |-> sessionId, result |-> result]

StartBrowserArgs == [navigationUrl : BOOLEAN]

StartAppArgs == [platform : {"iOS", "Android"}, appPath : BOOLEAN, noReset : BOOLEAN]

CloseSessionArgs == [detach : BOOLEAN]

NavigateArgs == [url : {"url"}]

Done(call, result) == [call EXCEPT !.at = "done", !.result = result]

\* state.browsers.set, state.currentSession = and state.sessionMetadata.set
Register(sessionId, type, isAttached) ==
  [browsers |-> state.browsers \cup {sessionId},
   currentSession |-> sessionId,
   sessionMetadata |->
     [id \in DOMAIN state.sessionMetadata \cup {sessionId} |->
        IF id = sessionId THEN [type |-> type, isAttached |-> isAttached]
        ELSE state.sessionMetadata[id]]]

\* the clean up of closeSessionTool
Unregister(sessionId) ==
  [browsers |-> state.browsers \ {sessionId},
   currentSession |-> NoSession,
   sessionMetadata |->
     [id \in DOMAIN state.sessionMetadata \ {sessionId} |-> state.sessionMetadata[id]]]

\* start_browser is called: the callback runs to await remote()
StartBrowserTool ==
  /\ Len(calls) < MaxToolCalls
  /\ \E args \in StartBrowserArgs :
       calls' = Append(calls, ToolCall("start_browser", args, "remote", NoSession, "pending"))
  /\ UNCHANGED <<state, driver>>
  /\ UNCHANGED locatorVars
  /\ UNCHANGED visibleVars

\* start_app_session is called: without appPath and without noReset: true
\* it returns an error text, else it runs to await remote()
StartAppTool ==
  /\ Len(calls) < MaxToolCalls
  /\ \E args \in StartAppArgs :
       calls' = Append(calls,
                       IF ~args.appPath /\ ~args.noReset
                         THEN ToolCall("start_app_session", args, "done", NoSession, "error")
                         ELSE ToolCall("start_app_session", args, "remote", NoSession,
                                       "pending"))
  /\ UNCHANGED <<state, driver>>
  /\ UNCHANGED locatorVars
  /\ UNCHANGED visibleVars

\* remote() resolves with a new session: startBrowserTool registers it and
\* runs to await browser.setWindowSize(); startAppTool registers it, with
\* isAttached when noReset is true or there is no appPath, and returns
RemoteResolves ==
  \E c \in 1..Len(calls) :
     /\ calls[c].at = "remote"
     /\ LET sessionId == driver.created + 1
            args == calls[c].args
        IN  /\ driver' = [created |-> sessionId, alive |-> driver.alive \cup {sessionId}]
            /\ IF calls[c].tool = "start_browser"
                 THEN /\ state' = Register(sessionId, "browser", FALSE)
                      /\ calls' = [calls EXCEPT ![c].at = "setWindowSize",
                                                ![c].sessionId = sessionId]
                 ELSE /\ state' = Register(sessionId,
                                           IF args.platform = "iOS" THEN "ios" ELSE "android",
                                           args.noReset \/ ~args.appPath)
                      /\ calls' = [calls EXCEPT
                                     ![c] = Done([calls[c] EXCEPT !.sessionId = sessionId],
                                                 "text")]
     /\ UNCHANGED locatorVars
     /\ UNCHANGED visibleVars

\* remote() rejects: startBrowserTool has no try block around it and
\* throws; startAppTool catches and returns an error text
RemoteRejects ==
  \E c \in 1..Len(calls) :
     /\ calls[c].at = "remote"
     /\ calls' = [calls EXCEPT
                   ![c] = Done(calls[c], IF calls[c].tool = "start_browser" THEN "rejected"
                                         ELSE "error")]
     /\ UNCHANGED <<state, driver>>
     /\ UNCHANGED locatorVars
     /\ UNCHANGED visibleVars

\* browser.setWindowSize() resolves or rejects, which is caught:
\* startBrowserTool runs to await browser.url(), or returns without a
\* navigationUrl
SetWindowSizeSettles ==
  \E c \in 1..Len(calls) :
     /\ calls[c].at = "setWindowSize"
     /\ calls' = [calls EXCEPT
                   ![c] = IF calls[c].args.navigationUrl THEN [calls[c] EXCEPT !.at = "url"]
                          ELSE Done(calls[c], "text")]
     /\ UNCHANGED <<state, driver>>
     /\ UNCHANGED locatorVars
     /\ UNCHANGED visibleVars

\* browser.url() resolves and the callback returns, or rejects:
\* startBrowserTool throws, navigateTool catches and returns an error text
UrlSettles ==
  \E c \in 1..Len(calls) :
     /\ calls[c].at = "url"
     /\ \E resolves \in BOOLEAN :
          calls' = [calls EXCEPT
                      ![c] = Done(calls[c],
                                  IF resolves THEN "text"
                                  ELSE IF calls[c].tool = "navigate" THEN "error"
                                  ELSE "rejected")]
     /\ UNCHANGED <<state, driver>>
     /\ UNCHANGED locatorVars
     /\ UNCHANGED visibleVars

\* navigate is called: getBrowser() throws without a current browser, which
\* is caught; else the callback runs to await browser.url()
NavigateTool ==
  /\ Len(calls) < MaxToolCalls
  /\ \E args \in NavigateArgs :
       calls' = Append(calls,
                       IF state.currentSession \notin state.browsers
                         THEN ToolCall("navigate", args, "done", NoSession, "error")
                         ELSE ToolCall("navigate", args, "url", state.currentSession,
                                       "pending"))
  /\ UNCHANGED <<state, driver>>
  /\ UNCHANGED locatorVars
  /\ UNCHANGED visibleVars

\* close_session is called: getBrowser() throws without a current browser,
\* which is caught; with detach the clean up is done at once; else the
\* callback runs to await browser.deleteSession()
CloseSessionTool ==
  /\ Len(calls) < MaxToolCalls
  /\ \E args \in CloseSessionArgs :
       LET sessionId == state.currentSession
       IN  IF sessionId \notin state.browsers
             THEN /\ calls' = Append(calls, ToolCall("close_session", args, "done",
                                                     NoSession, "error"))
                  /\ state' = state
           ELSE IF args.detach
             THEN /\ calls' = Append(calls, ToolCall("close_session", args, "done",
                                                     sessionId, "text"))
                  /\ state' = Unregister(sessionId)
           ELSE /\ calls' = Append(calls, ToolCall("close_session", args, "deleteSession",
                                                   sessionId, "pending"))
                /\ state' = state
  /\ UNCHANGED driver
  /\ UNCHANGED locatorVars
  /\ UNCHANGED visibleVars

\* browser.deleteSession() resolves: the server has ended the session and
\* closeSessionTool cleans up and returns
DeleteSessionResolves ==
  \E c \in 1..Len(calls) :
     /\ calls[c].at = "deleteSession"
     /\ driver' = [driver EXCEPT !.alive = @ \ {calls[c].sessionId}]
     /\ state' = Unregister(calls[c].sessionId)
     /\ calls' = [calls EXCEPT ![c] = Done(calls[c], "text")]
     /\ UNCHANGED locatorVars
     /\ UNCHANGED visibleVars

\* browser.deleteSession() rejects: closeSessionTool catches and returns an
\* error text
DeleteSessionRejects ==
  \E c \in 1..Len(calls) :
     /\ calls[c].at = "deleteSession"
     /\ calls' = [calls EXCEPT ![c] = Done(calls[c], "error")]
     /\ UNCHANGED <<state, driver>>
     /\ UNCHANGED locatorVars
     /\ UNCHANGED visibleVars

\* no call of generateAllElementLocators
InitSessions ==
  /\ sourceXML = EmptySource
  /\ platform = "android"
  /\ filters = EmptyFilters
  /\ faulty = {}
  /\ pc = "idle"
  /\ stack = << >>
  /\ results = << >>
  /\ errors = 0
  /\ viewportSize = DefaultViewportSize
  /\ domParser = "lenient"
  /\ history = << >>
  /\ NoSessions
  /\ NoVisibleElementsCall

NextSessions ==
  \/ StartBrowserTool
  \/ StartAppTool
  \/ CloseSessionTool
  \/ NavigateTool
  \/ RemoteResolves
  \/ RemoteRejects
  \/ SetWindowSizeSettles
  \/ UrlSettles
  \/ DeleteSessionResolves
  \/ DeleteSessionRejects

SpecSessions == InitSessions /\ [][NextSessions]_vars

(***************************************************************************)
(* get_visible_elements on a mobile session.  limit and offset are         *)
(* z.number(): any number, negative and fractional ones too.  A number of  *)
(* the arguments is counted in halves: 3 stands for 1.5.                   *)
(***************************************************************************)
PageNumbers == {-2, 0, 1, 2, 3, 4, 8}

\* ToIntegerOrInfinity of a number counted in halves
ToInteger(h) == IF h >= 0 THEN h \div 2 ELSE -((-h) \div 2)

\* Array.prototype.slice(start, end) with integer arguments
RelativeIndex(k, len) ==
  IF k < 0 THEN (IF len + k < 0 THEN 0 ELSE len + k) ELSE (IF k > len THEN len ELSE k)

slice(elements, start, end) ==
  SubSeq(elements, RelativeIndex(start, Len(elements)) + 1, RelativeIndex(end, Len(elements)))

LOCATOR_PRIORITY ==
  <<"accessibility-id", "id", "text", "predicate-string", "class-chain", "uiautomator", "xpath">>

\* the first locator in priority order, and the first of another value
selectBestLocators(locators) ==
  LET present == SelectSeq(LOCATOR_PRIORITY, LAMBDA st : st \in DOMAIN locators)
      primary == IF present = << >> THEN << >> ELSE <<locators[Head(present)].value>>
      others == SelectSeq(present, LAMBDA st : <<locators[st].value>> # primary)
  IN  primary \o (IF others = << >> THEN << >> ELSE <<locators[Head(others)].value>>)

\* path is not a field of MobileElementInfo: it names the node
toMobileElementInfo(element) ==
  LET selectedLocators == selectBestLocators(element.locators)
  IN  [path |-> element.path,
       selector |-> IF Len(selectedLocators) >= 1 THEN selectedLocators[1] ELSE << >>,
       tagName |-> element.tagName,
       isInViewport |-> element.isInViewport,
       text |-> element.text,
       altSelector |-> IF Len(selectedLocators) >= 2 THEN selectedLocators[2] ELSE << >>]

\* elements.filter((el) => el.isInViewport !== false)
viewportFiltered(elements, inViewportOnly) ==
  IF inViewportOnly THEN SelectSeq(elements, LAMBDA el : el.isInViewport) ELSE elements

\* the pagination of getVisibleElementsTool and its result
paginate(elements, limit, offset) ==
  LET total == Len(elements)
      skipped == IF offset > 0 THEN slice(elements, ToInteger(offset), total) ELSE elements
      page == IF limit > 0 THEN slice(skipped, 0, ToInteger(limit)) ELSE skipped
  IN  [total |-> total, showing |-> Len(page),
       hasMore |-> offset + 2 * Len(page) < 2 * total, elements |-> page]

\* the argument getMobileVisibleElements is called with
VisibleArgs == [includeContainers : BOOLEAN]

\* the arguments read after getMobileVisibleElements has returned
PageArgs == [inViewportOnly : BOOLEAN, limit : PageNumbers, offset : PageNumbers]

\* get_visible_elements is called on an Android session whose window is
\* SmallViewportSize: getMobileVisibleElements calls
\* generateAllElementLocators on the page source
InitVisible ==
  /\ platform = "android"
  /\ \E k \in 1..MaxNodes : \E S \in Shapes(k) :
       sourceXML \in Documents(S, AndroidRoot, {BoundsButton(Bounds1), BoundsButton(Bounds2)})
  /\ visibleArgs \in VisibleArgs
  /\ filters = getDefaultFilters(platform, visibleArgs.includeContainers)
  /\ faulty = {}
  /\ pc = "call"
  /\ stack = << >>
  /\ results = << >>
  /\ errors = 0
  /\ viewportSize = SmallViewportSize
  /\ domParser = "lenient"
  /\ history = << >>
  /\ NoSessions
  /\ visibleResult = << >>

\* generateAllElementLocators has returned: getVisibleElementsTool filters,
\* paginates and encodes the result; visibleArgs gets the arguments it
\* does so with
GetVisibleElementsTool ==
  /\ pc = "returned"
  /\ visibleArgs # << >>
  /\ visibleResult = << >>
  /\ \E page \in PageArgs :
       /\ visibleArgs' = [includeContainers |-> visibleArgs.includeContainers,
                          inViewportOnly |-> page.inViewportOnly,
                          limit |-> page.limit, offset |-> page.offset]
       /\ visibleResult' =
            <<paginate(viewportFiltered([i \in 1..Len(results) |->
                                           toMobileElementInfo(results[i])],
                                        page.inViewportOnly),
                       page.limit, page.offset)>>
  /\ UNCHANGED locatorVars
  /\ UNCHANGED sessionVars

NextVisible == GenerateAllElementLocators \/ TraverseTree \/ Return \/ GetVisibleElementsTool

SpecVisible == InitVisible /\ [][NextVisible]_vars

(***************************************************************************)
(* Properties of the records generateAllElementLocators returns.           *)
(***************************************************************************)
Returned == pc = "returned"

JSONElementAt(p) == translateRecursively(sourceXML, p)

LocatorsOf(rec) == {rec.locators[s] : s \in DOMAIN rec.locators}

\* the suggestion list getSuggestedLocators returns for the element
SuggestedOf(rec) ==
  LET locators == getSuggestedLocators(JSONElementAt(rec.path), ProcessingContext.automationName,
                                       ProcessingContext, rec.path)
  IN  {locators[k] : k \in 1..Len(locators)}

\* the nodes the equivalent XPath of a locator selects in the source
Matched(l) == evaluateXPath(sourceXML, l.xp)

HasRecord(p) == \E i \in 1..Len(results) : results[i].path = p

\* the element is not under the last child of /hierarchy
OutOfScope(p) == p # << >> /\ p[1] # NumChildren(sourceXML, << >>) - 1

UiSelectorSyntax(l) ==
  \/ l.strategy \in {"uiautomator", "class-name", "id", "text"}
  \/ l.value # << >> /\ l.value[1] = "android=new UiSelector()"

\* C1, as the code has it: every locator of a record that passed a
\* uniqueness check (an id, accessibility-id or text locator, a predicate
\* string on one attribute, an xpath locator of the unique or of the indexed
\* branch of addXPathLocator) selects exactly one node of the source.
C1_CheckedLocatorsMatchOneNode ==
  Returned =>
    \A i \in 1..Len(results) : \A l \in LocatorsOf(results[i]) :
      l.kind \in {"unique", "indexed"} => Len(Matched(l)) = 1

\* a source where one record holds a locator found unique and another an
\* indexed xpath locator
C1_Witness ==
  /\ Returned
  /\ \E i \in 1..Len(results) : \E l \in LocatorsOf(results[i]) :
       l.kind = "unique" /\ l.strategy = "accessibility-id" /\ Len(Matched(l)) = 1
  /\ \E i \in 1..Len(results) : \E l \in LocatorsOf(results[i]) :
       l.kind = "indexed" /\ l.strategy = "xpath"

\* C1, as the specification has it: every locator of every record other
\* than a last-resort XPath selects exactly one node of the source.
C1_EveryLocatorMatchesOneNode ==
  Returned =>
    \A i \in 1..Len(results) : \A l \in LocatorsOf(results[i]) :
      l.kind # "last-resort" => Len(Matched(l)) = 1

\* C2: the n of an xpath locator of the form (xpath)[n] is the place of the
\* element's own node among the nodes xpath matches, in document order.
C2_IndexedXPathSelectsOwnNode ==
  Returned =>
    \A i \in 1..Len(results) :
      ("xpath" \in DOMAIN results[i].locators /\ results[i].locators["xpath"].xp.index # 0)
        => Matched(results[i].locators["xpath"]) = <<results[i].path>>

\* C3: the record of an Android element that is not under the last child of
\* /hierarchy holds no uiautomator, class-name, id or text locator and no
\* other locator in UiSelector syntax.
C3_NoUiSelectorOutsideScope ==
  platform = "android" =>
    \A i \in 1..Len(results) :
      OutOfScope(results[i].path) =>
        \A l \in LocatorsOf(results[i]) : ~UiSelectorSyntax(l)

\* a button with a resource-id and a text outside the scope, with an xpath
\* locator, next to an element of the scope with a uiautomator locator
C3_Witness ==
  /\ Returned
  /\ platform = "android"
  /\ \E i \in 1..Len(results) :
       /\ OutOfScope(results[i].path)
       /\ results[i].tagName = "android.widget.Button"
       /\ "xpath" \in DOMAIN results[i].locators
  /\ \E j \in 1..Len(results) :
       /\ ~OutOfScope(results[j].path)
       /\ {"uiautomator", "class-name"} \subseteq DOMAIN results[j].locators

\* C4, as the code has it: every layout container with a meaningful content
\* (a text, or on Android a content-desc, or on iOS a label or a name, that
\* is not blank and not "null") has a record, whatever the filters.
C4_MeaningfulContainersAppear ==
  Returned =>
    \A p \in DOMAIN sourceXML :
      (/\ isLayoutContainer(JSONElementAt(p), platform)
       /\ hasMeaningfulContent(JSONElementAt(p), platform))
        => HasRecord(p)

\* under the filters that exclude the containers, the record of a container
\* that no filter lets through
C4_Witness ==
  /\ Returned
  /\ filters = getDefaultFilters(platform, FALSE)
  /\ \E i \in 1..Len(results) :
       /\ isLayoutContainer(JSONElementAt(results[i].path), platform)
       /\ ~shouldIncludeElement(JSONElementAt(results[i].path), filters,
                                ProcessingContext.automationName)

\* C4, as the specification has it: every layout container with a non-empty
\* text, content-desc or label has a record, whatever the filters.
C4_NonEmptyContainersAppear ==
  Returned =>
    \A p \in DOMAIN sourceXML :
      (/\ isLayoutContainer(JSONElementAt(p), platform)
       /\ \E n \in {"text", "content-desc", "label"} : getAttribute(sourceXML[p], n) # NoStr)
        => HasRecord(p)

\* C5: with visibleOnly, no iOS element whose visible attribute is "false"
\* has a record.
C5_NoInvisibleIOSElement ==
  (platform = "ios" /\ filters.visibleOnly) =>
    \A i \in 1..Len(results) :
      getAttribute(sourceXML[results[i].path], "visible") # <<"false">>

\* Scenario B: three buttons with the text "Submit" and the same resource-id
SubmitButtons ==
  {p \in DOMAIN sourceXML :
     /\ sourceXML[p].tag = "android.widget.Button"
     /\ getAttribute(sourceXML[p], "text") = <<"Submit">>
     /\ getAttribute(sourceXML[p], "resource-id") = <<"id/btn">>}

ScenarioB == platform = "android" /\ Cardinality(SubmitButtons) >= 3

\* the selector ends with .instance(k)
HasInstance(value) ==
  /\ Len(value) >= 3
  /\ value[Len(value) - 2] = ".instance("
  /\ value[Len(value)] = ")"

\* C6, as the code has it: of three buttons with the same text and the same
\* resource-id, those in the UiAutomator scope get an id and a text locator
\* that end with .instance(k), never the bare selector; those outside the
\* scope get neither.
C6_SharedTextAndIdAreIndexed ==
  (Returned /\ ScenarioB) =>
    \A p \in SubmitButtons : \E i \in 1..Len(results) :
      /\ results[i].path = p
      /\ IF OutOfScope(p)
           THEN {"id", "text"} \cap DOMAIN results[i].locators = {}
           ELSE /\ {"id", "text"} \subseteq DOMAIN results[i].locators
                /\ HasInstance(results[i].locators["id"].value)
                /\ HasInstance(results[i].locators["text"].value)

\* three such buttons, one in the scope with its two locators and one
\* outside of it
C6_Witness ==
  /\ Returned
  /\ ScenarioB
  /\ \E i \in 1..Len(results) :
       /\ results[i].path \in SubmitButtons
       /\ ~OutOfScope(results[i].path)
       /\ HasInstance(results[i].locators["id"].value)
  /\ \E j \in 1..Len(results) :
       results[j].path \in SubmitButtons /\ OutOfScope(results[j].path)

\* C6, as the specification has it: none of the records of the three
\* buttons holds an id or a text locator.
C6_SharedTextAndIdAreRejected ==
  (Returned /\ ScenarioB) =>
    \A i \in 1..Len(results) :
      results[i].path \in SubmitButtons => {"id", "text"} \cap DOMAIN results[i].locators = {}

\* a content-desc no other element of the source has
UniqueContentDesc(p) ==
  /\ isValidValue(getAttribute(sourceXML[p], "content-desc"))
  /\ \A q \in DOMAIN sourceXML \ {p} :
       getAttribute(sourceXML[q], "content-desc") # getAttribute(sourceXML[p], "content-desc")

StatusBarElements ==
  {p \in DOMAIN sourceXML :
     /\ OutOfScope(p)
     /\ UniqueContentDesc(p)
     /\ shouldProcess(JSONElementAt(p), ProcessingContext)}

WellQuoted(l) ==
  IF Contains(l.src, SQ) /\ Contains(l.src, DQ)
    THEN l.q = "concat" /\ LitWellFormed(l)
    ELSE l.q \in {SQ, DQ} /\ ~Contains(l.src, l.q) /\ ~Contains(l.body, l.q)

\* the XPaths getSimpleSuggestedLocators checks the uniqueness of
CheckedXPaths(p) ==
  LET cands == simpleCandidates(JSONElementAt(p), platform = "android")
  IN  {cands[k].xp : k \in 1..Len(cands)}

\* C8: every attribute value written as an XPath literal, in the xpath
\* locators of an element (those of its record and those of its suggestion
\* list) and in the XPaths checked for uniqueness, is put between quotes
\* that do not occur in it, or in a concat().
C8_XPathLiteralsWellQuoted ==
  \A i \in 1..Len(results) :
    /\ \A l \in LocatorsOf(results[i]) \cup SuggestedOf(results[i]) :
         l.strategy = "xpath" => \A lit \in XPLits(l.xp) : WellQuoted(lit)
    /\ \A xp \in CheckedXPaths(results[i].path) : \A lit \in XPLits(xp) : WellQuoted(lit)

\* every double quote of the written value follows a backslash, and no
\* newline is left
Escaped(written) ==
  \A k \in 1..Len(written) :
    /\ written[k] = DQ => (k > 1 /\ written[k - 1] = BS)
    /\ written[k] # NL

\* C9: in every UiAutomator selector and every iOS predicate string of a
\* record, the double quotes and the newlines of the attribute values are
\* escaped with a backslash.
C9_SelectorValuesEscaped ==
  \A i \in 1..Len(results) : \A l \in LocatorsOf(results[i]) :
    l.strategy \in {"uiautomator", "id", "text", "class-name", "predicate-string", "class-chain"}
      => \A k \in 1..Len(l.embedded) : Escaped(l.embedded[k].written)

\* the records of a traversal in which no construction throws, without
\* those of the elements of faulty
RECURSIVE RecordsWithout(_)
RecordsWithout(ps) ==
  IF ps = << >> THEN << >>
  ELSE (IF Head(ps) \in faulty THEN << >>
        ELSE processElement(JSONElementAt(Head(ps)), ProcessingContext, FALSE).records)
       \o RecordsWithout(Tail(ps))

\* C10: when the construction of the locators of an element throws, the
\* call still returns, with the records of all the other elements as they
\* are without the failure, and one logged error for every such element.
C10_FailureOmitsOnlyItsElement ==
  /\ pc # "thrown"
  /\ Returned =>
       /\ results = RecordsWithout(DocOrder(sourceXML))
       /\ errors = Cardinality({p \in faulty : shouldProcess(JSONElementAt(p), ProcessingContext)})

\* the construction threw for an element and the record of an element
\* under it is there
C10_Witness ==
  /\ Returned
  /\ errors = 1
  /\ \E p \in faulty : \E i \in 1..Len(results) :
       IsPrefix(p, results[i].path) /\ ~HasRecord(p)

\* the XPaths whose uniqueness is checked for the element: those of its
\* simple candidates and the one buildXPath writes
CandidateXPaths(p) ==
  CheckedXPaths(p) \cup {buildXPath(JSONElementAt(p), platform = "android")}

\* the element is processed and xpath.select throws on one of its XPaths
HasMalformedXPath(p) ==
  /\ shouldProcess(JSONElementAt(p), ProcessingContext)
  /\ \E xp \in CandidateXPaths(p) : xpathSelect(sourceXML, xp).threw

\* C11: when xpath.select throws on an XPath of a processed element, the
\* uniqueness check answers not unique, without an index; the call does not
\* end by an exception and logs no element error; the element has its
\* record, which holds an xpath locator, no locator of a candidate whose
\* XPath threw, and the locator of every candidate whose XPath did not.
C11_XPathErrorLeavesOtherLocators ==
  /\ pc # "thrown"
  /\ Returned =>
       \A p \in DOMAIN sourceXML : HasMalformedXPath(p) =>
         /\ \A xp \in CandidateXPaths(p) : xpathSelect(sourceXML, xp).threw =>
              checkXPathUniqueness(sourceXML, xp, p) = UniquenessResult(FALSE, 0, 0)
         /\ errors = 0
         /\ \E i \in 1..Len(results) :
              /\ results[i].path = p
              /\ "xpath" \in DOMAIN results[i].locators
              /\ LET cands == simpleCandidates(JSONElementAt(p), platform = "android")
                     scope == platform = "android" =>
                                isInUiAutomatorScope(JSONElementAt(p), sourceXML)
                 IN  \A k \in 1..Len(cands) :
                       IF xpathSelect(sourceXML, cands[k].xp).threw
                         THEN \A l \in SuggestedOf(results[i]) :
                                l.kind \in {"unique", "indexed"} => l.value # cands[k].value
                         ELSE \A l \in {simpleLocator(cands[k], ProcessingContext, scope, p)[j] :
                                         j \in 1..Len(simpleLocator(cands[k], ProcessingContext,
                                                                    scope, p))} :
                                l \in SuggestedOf(results[i])

\* the text and the description of an element both make an XPath that
\* throws, and its record has the xpath and the class-name locators
C11_Witness ==
  /\ Returned
  /\ \E i \in 1..Len(results) :
       /\ HasMalformedXPath(results[i].path)
       /\ \E xp \in CheckedXPaths(results[i].path) : xpathSelect(sourceXML, xp).threw
       /\ {"xpath", "class-name"} \subseteq DOMAIN results[i].locators
       /\ "text" \notin DOMAIN results[i].locators

\* the simple and then the complex locators of the element, before
\* getSuggestedLocators drops the repeated values
CandidateList(p) ==
  getSimpleSuggestedLocators(JSONElementAt(p), ProcessingContext,
                             ProcessingContext.automationName, p)
  \o getComplexSuggestedLocators(JSONElementAt(p), ProcessingContext,
                                 ProcessingContext.automationName, p)

\* the list getSuggestedLocators returns for the element
SuggestionList(p) ==
  getSuggestedLocators(JSONElementAt(p), ProcessingContext.automationName,
                       ProcessingContext, p)

\* C13: in the suggestion list of an element with a record no value occurs
\* twice; every value of a candidate occurs in it; and the locator that has
\* a value in the list is the first candidate with that value, in the order
\* simple then complex, whatever the strategies of the candidates.
C13_FirstOfEveryValueKept ==
  Returned =>
    \A i \in 1..Len(results) :
      LET cands == CandidateList(results[i].path)
          list  == SuggestionList(results[i].path)
      IN  /\ \A j, k \in 1..Len(list) : list[j].value = list[k].value => j = k
          /\ \A c \in 1..Len(cands) : \E k \in 1..Len(list) : list[k].value = cands[c].value
          /\ \A k \in 1..Len(list) : \E c \in 1..Len(cands) :
               /\ list[k] = cands[c]
               /\ \A b \in 1..(c - 1) : cands[b].value # list[k].value

\* two candidates of different strategies have the same value, and the
\* record holds no locator of the strategy of the second
C13_Witness ==
  /\ Returned
  /\ \E i \in 1..Len(results) :
       LET cands == CandidateList(results[i].path)
       IN  \E b, c \in 1..Len(cands) :
             /\ b < c
             /\ cands[b].value = cands[c].value
             /\ cands[b].strategy # cands[c].strategy
             /\ cands[c].strategy \notin DOMAIN results[i].locators

\* the priority order the comment of getSuggestedLocators gives
PriorityOrder ==
  IF platform = "android"
    THEN <<"id", "accessibility-id", "text", "xpath", "uiautomator", "class-name">>
    ELSE <<"accessibility-id", "predicate-string", "class-chain", "xpath", "class-name">>

Rank(strategy) == CHOOSE r \in 1..Len(PriorityOrder) : PriorityOrder[r] = strategy

\* C14: the suggestion list of an element with a record follows the
\* priority order of its platform: no locator comes after a locator of a
\* strategy of lower priority.
C14_ListFollowsPriorityOrder ==
  \A i \in 1..Len(results) :
    LET list == SuggestionList(results[i].path)
    IN  \A j, k \in 1..Len(list) :
          j < k => Rank(list[j].strategy) <= Rank(list[k].strategy)

\* C17: the path string of the element traverseTree is at, an element of
\* the tree xmlToJSON makes, is the path string of no other element, and
\* findDOMNodeByPath on it returns the DOM element it was translated from.
C17_PathAddressesItsNode ==
  pc = "traverse" /\ stack # << >> =>
    LET p == Head(stack)
    IN  /\ \A q \in DOMAIN sourceXML : pathString(p) = pathString(q) => p = q
        /\ findDOMNodeByPathString(sourceXML, pathString(p)) = p
        /\ findDOMNodeByPath(sourceXML, translateRecursively(sourceXML, p).path) = p

\* the traversal is at the element of path 0.0 of a source that also has
\* an element of path 1
C17_Witness ==
  /\ pc = "traverse"
  /\ stack # << >>
  /\ Head(stack) = <<0, 0>>
  /\ <<1>> \in DOMAIN sourceXML
  /\ pathString(Head(stack)) = <<"0", ".", "0">>
  /\ findDOMNodeByPath(sourceXML, translateRecursively(sourceXML, Head(stack)).path)
       = Head(stack)

OKButtons ==
  {p \in DOMAIN sourceXML :
     /\ sourceXML[p].tag = "android.widget.Button"
     /\ getAttribute(sourceXML[p], "text") = <<"OK">>
     /\ isValidValue(getAttribute(sourceXML[p], "resource-id"))}

ResourceIdOf(p) == getAttribute(sourceXML[p], "resource-id")

\* the pairs of OK buttons under different parents with different resource-ids
ScenarioAPairs ==
  {pq \in OKButtons \X OKButtons :
     /\ pq[1] # << >> /\ pq[2] # << >>
     /\ Parent(pq[1]) # Parent(pq[2])
     /\ ResourceIdOf(pq[1]) # ResourceIdOf(pq[2])}

\* the record of the element has the id locator of its resource-id, bare
HasOwnBareId(p) ==
  \E i \in 1..Len(results) :
    /\ results[i].path = p
    /\ "id" \in DOMAIN results[i].locators
    /\ results[i].locators["id"].value = UiSelector(<<Call("resourceId", ResourceIdOf(p))>>)
    /\ ~HasInstance(results[i].locators["id"].value)

\* C19, as the code has it: of two OK buttons under different parents with
\* different resource-ids, each one that is in the UiAutomator scope and
\* shares its resource-id with no other element has a record with the id
\* locator of its own resource-id, without .instance(n); each one outside
\* the scope has a record without an id locator.
C19_ScopedButtonsGetOwnId ==
  Returned =>
    \A pq \in ScenarioAPairs : \A p \in {pq[1], pq[2]} :
      /\ HasRecord(p)
      /\ (~OutOfScope(p) /\ \A q \in DOMAIN sourceXML \ {p} : ResourceIdOf(q) # ResourceIdOf(p))
           => HasOwnBareId(p)
      /\ OutOfScope(p) =>
           \A i \in 1..Len(results) :
             results[i].path = p => "id" \notin DOMAIN results[i].locators

\* two such buttons in the scope, each with its own bare id locator
C19_Witness ==
  /\ Returned
  /\ \E pq \in ScenarioAPairs :
       /\ ~OutOfScope(pq[1]) /\ ~OutOfScope(pq[2])
       /\ HasOwnBareId(pq[1]) /\ HasOwnBareId(pq[2])
       /\ ResourceIdOf(pq[1]) = <<"id/ok1">> /\ ResourceIdOf(pq[2]) = <<"id/ok2">>

\* C19 as stated: of two OK buttons under different parents with different
\* resource-ids, each has a record with the id locator of its own
\* resource-id, without .instance(n).
C19_BothButtonsGetOwnId ==
  Returned =>
    \A pq \in ScenarioAPairs : HasOwnBareId(pq[1]) /\ HasOwnBareId(pq[2])

\* C15: isInViewport of a record is true exactly when its bounds have
\* x >= 0, y >= 0, width > 0, height > 0, x + width <= viewport width and
\* y + height <= viewport height.
C15_InViewportIffBoxInside ==
  \A i \in 1..Len(results) :
    LET b == results[i].bounds
    IN  results[i].isInViewport <=>
          /\ ~b.x.nan /\ ~b.y.nan /\ ~b.width.nan /\ ~b.height.nan
          /\ b.x.n >= 0 /\ b.y.n >= 0 /\ b.width.n > 0 /\ b.height.n > 0
          /\ b.x.n + b.width.n <= viewportSize.width
          /\ b.y.n + b.height.n <= viewportSize.height

\* a record in the viewport whose box ends on the right and the bottom
\* edges of the viewport
C15_Witness ==
  /\ Returned
  /\ viewportSize = SmallViewportSize
  /\ \E i \in 1..Len(results) :
       /\ results[i].isInViewport
       /\ results[i].bounds.x.n + results[i].bounds.width.n = viewportSize.width
       /\ results[i].bounds.y.n + results[i].bounds.height.n = viewportSize.height

\* C16: the bounds of every record have width >= 0 and height >= 0.
C16_SizesNotNegative ==
  \A i \in 1..Len(results) :
    Geq(results[i].bounds.width, Num(0)) /\ Geq(results[i].bounds.height, Num(0))

\* the source has no element: the empty string or white space
WithoutElement == << >> \notin DOMAIN sourceXML

\* C12: on the empty string and on white space xmlToJSON returns null, and
\* generateAllElementLocators returns the empty list and throws nothing.
C12_NoElementNoRecord ==
  WithoutElement =>
    /\ xmlToJSON(sourceXML, domParser).isNull
    /\ pc # "thrown"
    /\ Returned => results = << >>

\* C18: a call returns what every earlier call with the same source,
\* platform and filters returned, whatever was called in between.
C18_SameArgumentsSameResults ==
  Returned =>
    \A k \in 1..Len(history) :
      (/\ history[k].sourceXML = sourceXML
       /\ history[k].platform = platform
       /\ history[k].filters = filters) => history[k].results = results

\* the third call has the arguments of the first, the second had others and
\* returned other records, and the records of the third are those of the first
C18_Witness ==
  /\ Returned
  /\ Len(history) = 2
  /\ history[1].sourceXML = sourceXML
  /\ history[1].platform = platform
  /\ history[1].filters = filters
  /\ history[2].sourceXML # sourceXML
  /\ history[2].results # << >>
  /\ history[2].results # results
  /\ results # << >>
  /\ history[1].results = results

\* every tool call has returned or thrown
NoCallPending == \A c \in 1..Len(calls) : calls[c].at = "done"

\* the sessions of the browsers map that are open at their server
OpenSessions == state.browsers \cap driver.alive

\* C20: when the start_browser, start_app_session and close_session calls
\* made so far have all returned, the browsers map holds at most one open
\* session.
C20_AtMostOneSession == NoCallPending => Cardinality(OpenSessions) <= 1

\* the calls of a tool
CallsOf(tool) == {c \in 1..Len(calls) : calls[c].tool = tool}

\* the sessions start_app_session created with noReset: true or without
\* appPath
AutoDetachSessions ==
  {calls[c].sessionId : c \in {c \in CallsOf("start_app_session") :
                                 /\ calls[c].sessionId # NoSession
                                 /\ calls[c].args.noReset \/ ~calls[c].args.appPath}}

\* C21: a session started with noReset: true or without appPath stays alive
\* at its server, and no close_session without detach: true awaits
\* deleteSession for it.
C21_AutoDetachKeepsSessionAlive ==
  /\ AutoDetachSessions \subseteq driver.alive
  /\ \A c \in CallsOf("close_session") :
       (~calls[c].args.detach /\ calls[c].sessionId \in AutoDetachSessions)
         => calls[c].at # "deleteSession"

\* C22: no tool call rejects: every call that is done has a text result.
C22_NoCallRejects ==
  \A c \in 1..Len(calls) : calls[c].at = "done" => calls[c].result \in {"text", "error"}

\* the calls that return or throw in this step
Returning ==
  {c \in 1..Len(calls') : calls'[c].at = "done" /\ (c > Len(calls) \/ calls[c].at # "done")}

\* a close_session call that had a browser to close returns
ClosesSession(c) ==
  c \in Returning /\ calls'[c].tool = "close_session" /\ calls'[c].sessionId # NoSession

\* C23: when a close_session that started on one session returns while
\* another session is the current one, that other session stays the current
\* one and stays in the browsers map.
C23_CloseLeavesOtherSession ==
  [][\A c \in 1..Len(calls') :
       (ClosesSession(c) /\ state.currentSession \notin {NoSession, calls'[c].sessionId})
         => /\ state'.currentSession = state.currentSession
            /\ state.currentSession \in state'.browsers]_vars

\* C24: when close_session returns for a current session, that session is in
\* neither browsers nor sessionMetadata and currentSession is null.
C24_CloseCleansUp ==
  [][\A c \in 1..Len(calls') :
       ClosesSession(c)
         => /\ calls'[c].sessionId \notin state'.browsers
            /\ calls'[c].sessionId \notin DOMAIN state'.sessionMetadata
            /\ state'.currentSession = NoSession]_vars

\* a start_browser or start_app_session call reports a failure
FailsToStart(c) ==
  /\ c \in Returning
  /\ calls'[c].tool \in {"start_browser", "start_app_session"}
  /\ calls'[c].result \in {"error", "rejected"}

\* C25: when a start_browser or start_app_session call reports a failure, no
\* session that remote() created for it, which no state before the call
\* held, is in browsers or sessionMetadata or is the currentSession.
C25_FailedStartRegistersNothing ==
  [][\A c \in 1..Len(calls') :
       FailsToStart(c)
         => /\ calls'[c].sessionId \notin state'.browsers
            /\ calls'[c].sessionId \notin DOMAIN state'.sessionMetadata
            /\ calls'[c].sessionId # NoSession
                 => state'.currentSession # calls'[c].sessionId]_vars

\* the k of a selector that ends with .instance(k)
InstanceOf(value) == CHOOSE k \in 0..9 : ToString(k) = value[Len(value) - 1]

\* the elements in the UiAutomator scope that the base selector of an id
\* or text locator matches, in document order
ScopedMatches(l) ==
  LET InScope(p) == ~OutOfScope(p)
  IN  SelectSeq(evaluateXPath(sourceXML, [l.xp EXCEPT !.index = 0]), InScope)

\* the id and text locators of a record that end with .instance(k)
InstanceLocators(rec) ==
  {rec.locators[s] : s \in {s \in {"id", "text"} \cap DOMAIN rec.locators :
                              HasInstance(rec.locators[s].value)}}

\* C26: an Android id or text locator with .instance(k) belongs to the
\* (k+1)-th element, in document order, of those in the UiAutomator scope
\* that its base selector matches.
C26_InstanceCountsScopedMatches ==
  platform = "android" =>
    \A i \in 1..Len(results) : \A l \in InstanceLocators(results[i]) :
      /\ InstanceOf(l.value) + 1 <= Len(ScopedMatches(l))
      /\ ScopedMatches(l)[InstanceOf(l.value) + 1] = results[i].path

\* the elements of the page source
Elements == {p \in DOMAIN sourceXML : p # TextNode}

\* the element passes shouldProcess
Gated(p) == shouldProcess(JSONElementAt(p), ProcessingContext)

\* C27: every element that passes shouldProcess and whose locator
\* construction does not throw has a record, and the record has an xpath
\* locator.
C27_GatedElementsHaveXPath ==
  Returned =>
    \A p \in Elements :
      (Gated(p) /\ p \notin faulty)
        => \E i \in 1..Len(results) :
             results[i].path = p /\ "xpath" \in DOMAIN results[i].locators

\* an element whose record has no locator but the xpath one, next to an
\* element whose construction threw
C27_Witness ==
  /\ Returned
  /\ \E p \in faulty : Gated(p)
  /\ \E i \in 1..Len(results) :
       /\ Gated(results[i].path)
       /\ DOMAIN results[i].locators = {"xpath"}

\* the records whose xpath locator is a hierarchical one
HierarchicalRecords ==
  {i \in 1..Len(results) :
     /\ "xpath" \in DOMAIN results[i].locators
     /\ results[i].locators["xpath"].kind = "hierarchical"}

\* C28: the nodes a hierarchical XPath selects in the page source include
\* the element it was emitted for.
C28_HierarchicalXPathSelectsElement ==
  \A i \in HierarchicalRecords :
    \E k \in 1..Len(Matched(results[i].locators["xpath"])) :
      Matched(results[i].locators["xpath"])[k] = results[i].path

\* a hierarchical XPath of two steps, the second with a sibling index
C28_Witness ==
  \E i \in HierarchicalRecords :
    LET steps == results[i].locators["xpath"].xp.steps
    IN  Len(steps) = 2 /\ steps[2].pos = 2

\* C29: an element has a record exactly when it passes shouldProcess,
\* whether or not the elements above it have one, and two elements of the
\* same tag and attributes both have a record or both have none.
C29_EmissionDependsOnOwnNode ==
  Returned =>
    /\ \A p \in Elements \ faulty : HasRecord(p) <=> Gated(p)
    /\ \A p, q \in Elements \ faulty :
         sourceXML[p] = sourceXML[q] => (HasRecord(p) <=> HasRecord(q))

\* an element with a record under an element, not the document element,
\* that has none
C29_Witness ==
  /\ Returned
  /\ \E p \in Elements :
       /\ Len(p) = 2
       /\ HasRecord(p)
       /\ ~HasRecord(Parent(p))

\* get_visible_elements has encoded its result
Responded == visibleResult # << >>

\* the list get_visible_elements paginates
FilteredList ==
  viewportFiltered([i \in 1..Len(results) |-> toMobileElementInfo(results[i])],
                   visibleArgs.inViewportOnly)

\* the place in the filtered list of the last element of the page; with
\* an empty page, the number of elements the offset skips
LastReturned ==
  LET page == visibleResult[1].elements
  IN  IF page # << >>
        THEN CHOOSE k \in 1..Len(FilteredList) : FilteredList[k].path = page[Len(page)].path
      ELSE IF visibleArgs.offset > 0
        THEN RelativeIndex(ToInteger(visibleArgs.offset), Len(FilteredList))
      ELSE 0

\* C30: hasMore is true exactly when an element of the viewport-filtered
\* list lies after the last element of the returned page.
C30_HasMoreIffElementsRemain ==
  Responded => (visibleResult[1].hasMore <=> LastReturned < Len(FilteredList))

====
